---- MODULE Spec2Model ----
(***************************************************************************)
(* A model of the XCom Paxos engine of                                     *)
(* plugin/group_replication/libmysqlgcs/src/bindings/xcom/xcom/xcom_base.cc *)
(* Group ids are not modelled: every synode belongs to the one group.      *)
(***************************************************************************)
EXTENDS Integers, Sequences, FiniteSets, TLC

(* ------------------------------------------------------------------ *)
(* Program constants                                                  *)
(* ------------------------------------------------------------------ *)
MAX_ARRAY_LEN == 65536
MAX_PROPOSER_ONLINE == 32768
SKIP_OVER_NUM == 16384
threephase == 0
no_duplicate_payload == 1
EVENT_HORIZON_MIN == 10
EVENT_HORIZON_MAX == 200
\* (node_no)~0: the all-ones 32-bit pattern, written as -1
VOID_NODE_NO == -1

(* ------------------------------------------------------------------ *)
(* Bounds of the model                                                *)
(* ------------------------------------------------------------------ *)
\* number of node identities (addresses) that exist
MaxNodes == 3
\* number of reconfiguration commands the executor specification learns
MaxConfigs == 2
\* length of the executor specification's run, in message numbers
MaxRun == 26

Nodes == 0 .. (MaxNodes - 1)

(* ------------------------------------------------------------------ *)
(* synode_no and ballot                                               *)
(* ------------------------------------------------------------------ *)
Synode(m, n) == [msgno |-> m, node |-> n]
null_synode == Synode(0, 0)

synode_eq(x, y) == x.msgno = y.msgno /\ x.node = y.node
\* unsigned comparison of node numbers: VOID_NODE_NO is the greatest
node_lt(a, b) == a # VOID_NODE_NO /\ (b = VOID_NODE_NO \/ a < b)
synode_lt(x, y) ==
  x.msgno < y.msgno \/ (x.msgno = y.msgno /\ node_lt(x.node, y.node))
synode_gt(x, y) == synode_lt(y, x)

Ballot(c, n) == [cnt |-> c, node |-> n]
gt_ballot(x, y) == x.cnt > y.cnt \/ (x.cnt = y.cnt /\ node_lt(y.node, x.node))
eq_ballot(x, y) == x.cnt = y.cnt /\ x.node = y.node

(* ------------------------------------------------------------------ *)
(* Site definitions: a history, newest first.  NoSite is the null      *)
(* pointer.                                                            *)
(* ------------------------------------------------------------------ *)
NoSite == [start |-> null_synode, boot_key |-> null_synode, nodes |-> << >>,
           event_horizon |-> 0, nodeno |-> VOID_NODE_NO, null |-> TRUE]

Site(st, bk, nl, eh, nn) ==
  [start |-> st, boot_key |-> bk, nodes |-> nl, event_horizon |-> eh,
   nodeno |-> nn, null |-> FALSE]

get_nodeno(site) == IF site.null THEN VOID_NODE_NO ELSE site.nodeno
get_maxnodes(site) == IF site.null THEN 0 ELSE Len(site.nodes)

\* index of the local address in a node list, VOID_NODE_NO when absent
xcom_find_node_index(nl, self) ==
  IF \E i \in 1 .. Len(nl) : nl[i] = self
  THEN (CHOOSE i \in 1 .. Len(nl) : nl[i] = self) - 1
  ELSE VOID_NODE_NO

\* the latest site pushed
get_site_def(sd) == IF Len(sd) = 0 THEN NoSite ELSE sd[1]

\* the newest site whose start is not after the synode
find_site_def(sd, s) ==
  IF \E i \in 1 .. Len(sd) : ~synode_lt(s, sd[i].start)
  THEN sd[CHOOSE i \in 1 .. Len(sd) :
            /\ ~synode_lt(s, sd[i].start)
            /\ \A j \in 1 .. (i - 1) : synode_lt(s, sd[j].start)]
  ELSE NoSite

\* the oldest site whose start is greater than the given start
find_next_site_def(sd, st) ==
  IF \E i \in 1 .. Len(sd) : synode_gt(sd[i].start, st)
  THEN sd[CHOOSE i \in 1 .. Len(sd) :
            /\ synode_gt(sd[i].start, st)
            /\ \A j \in (i + 1) .. Len(sd) : ~synode_gt(sd[j].start, st)]
  ELSE NoSite

is_latest_config(sd, site) == site = get_site_def(sd)

push_site_def(sd, site) == << site >> \o sd

(* ------------------------------------------------------------------ *)
(* State                                                              *)
(* ------------------------------------------------------------------ *)
\* A connection carries the messages of the node that opened it in one
\* direction ("req") and the replies to them in the other ("rep"), each in
\* the order of sending: << sender, receiver, direction >>
Chans == { << a, b, k >> : a \in Nodes, b \in Nodes, k \in {"req", "rep"} }

NoTraffic == [c \in Chans |-> << >>]

VARIABLES
  site_defs,        \* [Nodes -> Seq(site)], newest first
  executed_msg,     \* [Nodes -> synode]
  delivered_msg,    \* [Nodes -> synode]
  max_synode,       \* [Nodes -> synode]
  current_message,  \* [Nodes -> synode]
  xc,               \* [Nodes -> execute_context]
  delay_fifo,       \* [Nodes -> Seq(synode)]
  pax,              \* [Nodes -> [cached synodes -> pax_machine]]
  app_log,          \* [Nodes -> Seq(<<synode, value>>)], calls of execute_msg
  installs,         \* [Nodes -> Seq(record)], one per applied reconfiguration
  lsn_log,          \* [Nodes -> Seq(app_data)], one per call of assign_lsn
  net,              \* [Chans -> Seq(pax_msg)], the messages in flight
  prop_input_queue, \* [Nodes -> Seq(app_data)]
  prop,             \* [Nodes -> proposer_task environment]
  participate_paxos, \* [Nodes -> set of array indices holding 1]
  all_nodes_valid,  \* [Nodes -> 0 .. 1]
  client_boot_done, \* [Nodes -> 0 .. 1]
  cache_full,       \* [Nodes -> BOOLEAN], get_cache cannot allocate
  sweep_find,       \* [Nodes -> synode], find of sweeper_task
  clients,          \* [Nodes -> Nat], client messages handed to a node
  lifecycle,        \* [Nodes -> the state of xcom_fsm and what it resets]
  lost,             \* number of messages the transport has dropped
  fills             \* number of times a cache has run out of machines

vars == << site_defs, executed_msg, delivered_msg, max_synode,
           current_message, xc, delay_fifo, pax, app_log, installs,
           lsn_log, net,
           prop_input_queue, prop, participate_paxos, all_nodes_valid,
           client_boot_done, cache_full, sweep_find, clients,
           lifecycle, lost, fills >>

paxos_vars == << net, prop_input_queue, prop, participate_paxos,
                 all_nodes_valid, client_boot_done, cache_full, sweep_find,
                 clients, lifecycle, lost, fills >>

(* ------------------------------------------------------------------ *)
(* Event horizon                                                      *)
(* ------------------------------------------------------------------ *)
RECURSIVE first_eh_scan(_, _, _)
first_eh_scan(sd, active_eh, next_config) ==
  IF next_config.null THEN NoSite
  ELSE IF active_eh # next_config.event_horizon THEN next_config
  ELSE first_eh_scan(sd, active_eh, find_next_site_def(sd, next_config.start))

first_event_horizon_reconfig(sd, ex) ==
  LET active_config == find_site_def(sd, ex)
  IN first_eh_scan(sd, active_config.event_horizon,
                   find_next_site_def(sd, active_config.start))

RECURSIVE latest_eh_scan(_, _, _, _)
latest_eh_scan(sd, previous_eh, last, next_config) ==
  IF next_config.null THEN last
  ELSE IF previous_eh # next_config.event_horizon
       THEN latest_eh_scan(sd, next_config.event_horizon, next_config,
                           find_next_site_def(sd, next_config.start))
       ELSE latest_eh_scan(sd, previous_eh, last,
                           find_next_site_def(sd, next_config.start))

latest_event_horizon_reconfig(sd, ex) ==
  LET active_config == find_site_def(sd, ex)
  IN latest_eh_scan(sd, active_config.event_horizon, NoSite,
                    find_next_site_def(sd, active_config.start))

add_event_horizon(sd, ex, s) ==
  LET active_config == find_site_def(sd, ex)
      pending_config == latest_event_horizon_reconfig(sd, ex)
  IN IF active_config.null THEN null_synode
     ELSE IF is_latest_config(sd, active_config) \/ pending_config.null
          THEN Synode(s.msgno + active_config.event_horizon + 1, s.node)
          ELSE Synode(pending_config.start.msgno
                        + pending_config.event_horizon + 1, s.node)

too_far_threshold(ex, active_event_horizon) == ex.msgno + active_event_horizon

Min(a, b) == IF a < b THEN a ELSE b

too_far_threshold_new_event_horizon_pending(sd, ex, new_config) ==
  LET active_config == find_site_def(sd, ex)
      possibly_unsafe_threshold == ex.msgno + active_config.event_horizon
      maximum_safe_threshold ==
        new_config.start.msgno - 1 + new_config.event_horizon
  IN Min(possibly_unsafe_threshold, maximum_safe_threshold)

too_far_at(sd, ex, s) ==
  LET active_config == find_site_def(sd, ex)
      pending_config == first_event_horizon_reconfig(sd, ex)
      threshold ==
        IF ~active_config.null
        THEN IF is_latest_config(sd, active_config) \/ pending_config.null
             THEN too_far_threshold(ex, active_config.event_horizon)
             ELSE too_far_threshold_new_event_horizon_pending(
                    sd, ex, pending_config)
        ELSE too_far_threshold(ex, EVENT_HORIZON_MIN)
  IN s.msgno >= threshold

too_far(n, s) == too_far_at(site_defs[n], executed_msg[n], s)

incr_msgno(sd, msgno) ==
  LET ret == Synode(msgno.msgno + 1, msgno.node)
  IN Synode(ret.msgno, get_nodeno(find_site_def(sd, ret)))

\* node + 1 wraps to 0 from VOID_NODE_NO, as the unsigned increment does
incr_synode(sd, synode) ==
  IF synode.node + 1 >= get_maxnodes(find_site_def(sd, synode))
  THEN Synode(synode.msgno + 1, 0)
  ELSE Synode(synode.msgno, synode.node + 1)

compute_delay(start, event_horizon) ==
  Synode(start.msgno + event_horizon, start.node)

(* ------------------------------------------------------------------ *)
(* Application data and learned values                                *)
(* ------------------------------------------------------------------ *)
\* lsn is the log sequence number of the payload, size what app_data_size
\* gives for it, and next the payloads that follow it in its list
NoApp == [c_t |-> "none", id |-> 0, app_key |-> null_synode,
          nodes |-> << >>, event_horizon |-> 0, lsn |-> 0, size |-> 0,
          consensus |-> "cons_majority", next |-> << >>]

AppData(ct, id, key, nl, eh) ==
  [c_t |-> ct, id |-> id, app_key |-> key, nodes |-> nl,
   event_horizon |-> eh, lsn |-> 0, size |-> 1,
   consensus |-> "cons_majority", next |-> << >>]

is_config(ct) ==
  ct \in {"unified_boot_type", "add_node_type", "remove_node_type",
          "set_event_horizon_type", "force_config_type"}

\* the part of a pax_msg that is the value of a consensus round
Value(mt, a) == [msg_type |-> mt, a |-> a]
NoMsg == Value("none", NoApp)
NoOpValue == Value("no_op", NoApp)

(* ------------------------------------------------------------------ *)
(* The lifecycle state of a node: the state xcom_fsm rests in and the  *)
(* variables its handlers set and reset                                *)
(* ------------------------------------------------------------------ *)
MAX_DEAD == 10

\* the tasks xcom_fsm_run_enter creates and handle_fsm_terminate ends
RunTasks ==
  {"proposers", "executor", "sweeper", "detector", "alive_t", "cache_task"}

NoDeadSites == [i \in 0 .. (MAX_DEAD - 1) |-> 0]

\* the static variables before the first call of xcom_fsm
InitLifecycle ==
  [state |-> "xcom_fsm_init", xcom_shutdown |-> 0, oom_abort |-> 0,
   no_cache_abort |-> 0, need_init_cache |-> 0,
   dead_sites |-> [n |-> 0, id |-> NoDeadSites], tasks |-> {},
   forced_config |-> NoSite, wait_forced_config |-> 0,
   start_config |-> null_synode, snapshots |-> {},
   log_start_max |-> null_synode, log_end_max |-> null_synode,
   x_timer |-> 0, x_fsm_completion |-> 0, cli_err |-> << >>, lsn |-> 0]

\* a node that xcom_fsm_run_enter has started
RunLifecycle(site) ==
  [InitLifecycle EXCEPT !.state = "xcom_fsm_run", !.need_init_cache = 1,
                        !.tasks = RunTasks, !.start_config = site.boot_key]

(* ------------------------------------------------------------------ *)
(* The engine state of one node as a record, threaded through the     *)
(* calls of a handler                                                 *)
(* ------------------------------------------------------------------ *)
Engine(n) ==
  [self |-> n, sd |-> site_defs[n], ex |-> executed_msg[n],
   dl |-> delivered_msg[n], mx |-> max_synode[n], cm |-> current_message[n],
   xc |-> xc[n], fifo |-> delay_fifo[n], log |-> app_log[n],
   ins |-> installs[n], lsns |-> lsn_log[n], pm |-> pax[n],
   out |-> NoTraffic,
   queue |-> prop_input_queue[n], prop |-> prop[n],
   pp |-> participate_paxos[n], anv |-> all_nodes_valid[n],
   boot |-> client_boot_done[n], full |-> cache_full[n],
   find |-> sweep_find[n], someone |-> VOID_NODE_NO,
   fsm |-> lifecycle[n], suspected |-> {}, stray_nodes |-> FALSE]

set_max_synode(e, synode) == [e EXCEPT !.mx = synode]

first_free_synode(sd, msgno) ==
  LET site == find_site_def(sd, msgno)
      retval == Synode(IF msgno.msgno = 0 THEN 1 ELSE msgno.msgno,
                       get_nodeno(site))
  IN IF site.null THEN get_site_def(sd).start
     ELSE IF synode_lt(retval, msgno) THEN incr_msgno(sd, retval)
     ELSE retval

set_executed_msg(e, msgno) ==
  [e EXCEPT !.cm = IF synode_gt(msgno, e.cm)
                   THEN first_free_synode(e.sd, msgno) ELSE e.cm,
            !.ex = msgno]

(* ------------------------------------------------------------------ *)
(* Reconfiguration commands                                           *)
(* ------------------------------------------------------------------ *)
getstart(e, a) ==
  IF ~get_site_def(e.sd).null /\ a.app_key.msgno > 1
  THEN add_event_horizon(e.sd, e.ex, a.app_key)
  ELSE a.app_key

site_install_action(e, site) ==
  LET e1 == IF synode_gt(site.start, e.mx)
            THEN set_max_synode(e, site.start) ELSE e
      installed == [site EXCEPT
                      !.nodeno = xcom_find_node_index(site.nodes, e.self)]
  IN [e1 EXCEPT !.sd = push_site_def(e.sd, installed)]

\* add_site_def: append the nodes of the command to the node list
add_site_def(nl, site) == [site EXCEPT !.nodes = site.nodes \o nl]

\* remove_site_def: drop the nodes of the command from the node list
remove_site_def(nl, site) ==
  [site EXCEPT !.nodes =
     SelectSeq(site.nodes, LAMBDA x : \A i \in 1 .. Len(nl) : nl[i] # x)]

handle_add_node(e, a) ==
  LET site == add_site_def(a.nodes, get_site_def(e.sd))
  IN site_install_action(
       e, [site EXCEPT !.start = getstart(e, a), !.boot_key = a.app_key])

handle_remove_node(e, a) ==
  LET site == remove_site_def(a.nodes, get_site_def(e.sd))
  IN site_install_action(
       e, [site EXCEPT !.start = getstart(e, a), !.boot_key = a.app_key])

allow_event_horizon(event_horizon) ==
  ~(event_horizon < EVENT_HORIZON_MIN \/ event_horizon > EVENT_HORIZON_MAX)

unsafe_event_horizon_reconfiguration(a) ==
  ~allow_event_horizon(a.event_horizon)

\* the new site is the clone of the latest one with only event_horizon set
handle_event_horizon(e, a) ==
  IF unsafe_event_horizon_reconfiguration(a) THEN e
  ELSE site_install_action(
         e, [get_site_def(e.sd) EXCEPT !.event_horizon = a.event_horizon])

\* TRUE when the command installs a site
handle_config_ok(a) ==
  CASE a.c_t = "add_node_type" -> TRUE
    [] a.c_t = "remove_node_type" -> TRUE
    [] a.c_t = "set_event_horizon_type" ->
         ~unsafe_event_horizon_reconfiguration(a)
    [] OTHER -> FALSE

handle_config(e, a) ==
  CASE a.c_t = "add_node_type" -> handle_add_node(e, a)
    [] a.c_t = "remove_node_type" -> handle_remove_node(e, a)
    [] a.c_t = "set_event_horizon_type" -> handle_event_horizon(e, a)
    [] OTHER -> e

(* ------------------------------------------------------------------ *)
(* Executor                                                           *)
(* ------------------------------------------------------------------ *)
is_member(site) == site.nodeno # VOID_NODE_NO
is_empty_site(site) == Len(site.nodes) = 0

fifo_insert(e, s) == [e EXCEPT !.fifo = Append(e.fifo, s)]

\* the latest site is changed in place when it is empty
setup_exit_handling(e, site) ==
  IF is_member(site)
  THEN LET delay_until == compute_delay(site.start, site.event_horizon)
           e1 == IF synode_gt(delay_until, e.mx)
                 THEN set_max_synode(e, incr_msgno(e.sd, delay_until))
                 ELSE e
           e2 == fifo_insert(e1, delay_until)
       IN [e2 EXCEPT !.xc.inform_index = e.xc.inform_index + 1]
  ELSE LET exit_synode == compute_delay(site.start, site.event_horizon)
           e1 == [e EXCEPT !.xc.delivery_limit = site.start,
                           !.xc.exit_synode = exit_synode]
           e2 == IF is_empty_site(site)
                 THEN [e1 EXCEPT !.sd[1].start =
                         compute_delay(
                           compute_delay(site.start, site.event_horizon),
                           site.event_horizon)]
                 ELSE e1
           e3 == IF ~synode_lt(exit_synode, e2.mx)
                 THEN set_max_synode(e2, incr_synode(e2.sd, exit_synode))
                 ELSE e2
           e4 == [e3 EXCEPT !.xc.exit_flag = 1]
           e5 == IF synode_gt(exit_synode, e4.mx)
                 THEN set_max_synode(e4, incr_msgno(e4.sd, exit_synode))
                 ELSE e4
           e6 == fifo_insert(e5, exit_synode)
       IN [e6 EXCEPT !.xc.inform_index = e.xc.inform_index + 1]

\* x_check_exit without the test of delivered_msg
x_check_exit_undelivered(e) ==
  /\ e.xc.exit_flag = 1
  /\ ~synode_lt(e.ex, e.xc.exit_synode)

x_check_exit(e) ==
  /\ e.xc.exit_flag = 1
  /\ ~synode_lt(e.ex, e.xc.exit_synode)
  /\ ~synode_lt(e.dl, e.xc.delivery_limit)

RECURSIVE fifo_drain(_)
fifo_drain(e) ==
  IF Len(e.fifo) > 0 /\ ~synode_lt(e.ex, Head(e.fifo))
  THEN fifo_drain([e EXCEPT !.fifo = Tail(e.fifo),
                            !.xc.inform_index = e.xc.inform_index - 1])
  ELSE e

\* << the context after the call, the value returned >>
x_check_execute_inform(e) ==
  IF Len(e.fifo) = 0 THEN << e, 1 >>
  ELSE IF ~synode_lt(e.ex, Head(e.fifo)) THEN << fifo_drain(e), 1 >>
  ELSE << e, 0 >>

x_check_increment_fetch(e) ==
  IF x_check_exit(e) THEN [e EXCEPT !.xc.state = "x_terminate"]
  ELSE LET e1 == set_executed_msg(e, incr_synode(e.sd, e.ex))
           r == x_check_execute_inform(e1)
       IN IF r[2] = 1 THEN [r[1] EXCEPT !.xc.state = "x_execute"] ELSE r[1]

\* x_check_increment_execute that goes back to fetch after one message
x_check_increment_execute_once(e) ==
  IF x_check_exit(e) THEN [e EXCEPT !.xc.state = "x_terminate"]
  ELSE [e EXCEPT !.dl = incr_synode(e.sd, e.dl), !.xc.state = "x_fetch"]

x_check_increment_execute(e) ==
  IF x_check_exit(e) THEN [e EXCEPT !.xc.state = "x_terminate"]
  ELSE LET e1 == [e EXCEPT !.dl = incr_synode(e.sd, e.dl)]
       IN IF synode_eq(e1.dl, e1.ex)
          THEN [e1 EXCEPT !.xc.state = "x_fetch"] ELSE e1

\* m is the learned value of executed_msg
x_fetch(e, m) ==
  IF /\ m.a.c_t # "none" /\ is_config(m.a.c_t)
     /\ synode_gt(e.ex, get_site_def(e.sd).boot_key)
     /\ handle_config_ok(m.a)
  THEN LET e1 == handle_config(e, m.a)
           site == get_site_def(e1.sd)
           e2 == [e1 EXCEPT !.ins = Append(e.ins,
                    [k |-> e.ex, c_t |-> m.a.c_t,
                     eh |-> find_site_def(e.sd, e.ex).event_horizon,
                     executed |-> e.ex, site |-> site])]
           e3 == IF e2.xc.exit_flag = 0
                 THEN setup_exit_handling(e2, site) ELSE e2
       IN x_check_increment_fetch(e3)
  ELSE x_check_increment_fetch(e)

\* x_execute without the limit of delivery
x_execute_unlimited(e, m) ==
  x_check_increment_execute(
    IF m.msg_type # "no_op"
    THEN [e EXCEPT !.log = Append(e.log, << e.dl, m >>)] ELSE e)

\* m is the learned value of delivered_msg
x_execute(e, m) ==
  LET e1 == IF /\ m.msg_type # "no_op"
               /\ (e.xc.exit_flag = 0 \/ synode_lt(e.dl, e.xc.delivery_limit))
            THEN [e EXCEPT !.log = Append(e.log, << e.dl, m >>)]
            ELSE e
  IN x_check_increment_execute(e1)

x_terminate(e) == [e EXCEPT !.xc.state = "null"]

(* ------------------------------------------------------------------ *)
(* pax_msg and pax_machine                                            *)
(* ------------------------------------------------------------------ *)
PaxMsg(from, to, op, synode, proposal, reply_to, mt, a, force) ==
  [from |-> from, to |-> to, op |-> op, synode |-> synode,
   proposal |-> proposal, reply_to |-> reply_to, msg_type |-> mt, a |-> a,
   force_delivery |-> force, dst |-> VOID_NODE_NO]

\* the null pax_msg pointer
NoPaxMsg ==
  PaxMsg(VOID_NODE_NO, VOID_NODE_NO, "null", null_synode, Ballot(0, 0),
         Ballot(0, 0), "none", NoApp, 0)

pax_msg_new(synode, site) ==
  PaxMsg(get_nodeno(site), VOID_NODE_NO, "initial_op", synode,
         Ballot(-1, get_nodeno(site)), Ballot(0, get_nodeno(site)),
         "normal", NoApp, 0)

init_pax_machine(synode) ==
  [synode |-> synode, op |-> "initial_op", force_delivery |-> 0,
   enforcer |-> 0, lock |-> 0,
   proposer |-> [bal |-> Ballot(-1, 0), prep_nodeset |-> {},
                 prop_nodeset |-> {}, sent_prop |-> Ballot(0, 0),
                 sent_learn |-> Ballot(-1, 0), msg |-> NoPaxMsg],
   acceptor |-> [promise |-> Ballot(0, 0), msg |-> NoPaxMsg],
   learner |-> [msg |-> NoPaxMsg]]

is_cached(pm, s) == s \in DOMAIN pm
get_cache(pm, s) == IF is_cached(pm, s) THEN pm[s] ELSE init_pax_machine(s)

\* the cache with machine p stored at its synode
put_cache(pm, p) ==
  [s \in DOMAIN pm \cup {p.synode} |-> IF s = p.synode THEN p ELSE pm[s]]

finished(p) == p.learner.msg.op \in {"learn_op", "tiny_learn_op"}
accepted(p) == p.acceptor.msg.op # "null" /\ p.acceptor.msg.op # "initial_op"
accepted_noop(p) == accepted(p) /\ p.acceptor.msg.msg_type = "no_op"
noop_match(p, m) == m.msg_type = "no_op" /\ accepted_noop(p)
started(p) ==
  \/ p.op # "initial_op"
  \/ p.acceptor.promise.cnt > 0
  \/ (p.proposer.msg.op # "null" /\ p.proposer.msg.op # "initial_op")
  \/ accepted(p)
  \/ finished(p)

is_busy(pm, s) == IF ~is_cached(pm, s) THEN FALSE ELSE started(pm[s])

skip_value(m) == [m EXCEPT !.op = "learn_op", !.msg_type = "no_op"]

do_learn(p, m) == [p EXCEPT !.acceptor.msg = m, !.learner.msg = m]

\* handle_learn without the test of finished
handle_learn_again(p, m) == do_learn(p, m)

handle_learn(p, m) == IF ~finished(p) THEN do_learn(p, m) ELSE p

handle_skip(p, m) == IF ~finished(p) THEN do_learn(p, skip_value(m)) ELSE p

(* ------------------------------------------------------------------ *)
(* Initial state: every node has booted into the first site and its   *)
(* executor has passed the boot message at synode (1, 0)              *)
(* ------------------------------------------------------------------ *)
InitNodes == << 0, 1 >>
InitStart == Synode(1, 0)

InitSite(n) ==
  Site(InitStart, InitStart, InitNodes, EVENT_HORIZON_MIN,
       xcom_find_node_index(InitNodes, n))

InitExecuted(n) == incr_synode(<< InitSite(n) >>, InitStart)

InitContext ==
  [state |-> "x_fetch", exit_flag |-> 0, exit_synode |-> null_synode,
   delivery_limit |-> null_synode, inform_index |-> -1]

get_sweep_start(sd, ex) ==
  LET find == Synode(ex.msgno, get_nodeno(find_site_def(sd, ex)))
  IN IF node_lt(find.node, ex.node) THEN incr_msgno(sd, find) ELSE find

InitProposer ==
  [pc |-> "idle", client_msg |-> NoApp, msgno |-> null_synode]

InitEngine ==
  /\ site_defs = [n \in Nodes |-> << InitSite(n) >>]
  /\ executed_msg = [n \in Nodes |-> InitExecuted(n)]
  /\ delivered_msg = [n \in Nodes |-> InitExecuted(n)]
  /\ max_synode = [n \in Nodes |-> InitExecuted(n)]
  /\ current_message =
       [n \in Nodes |-> first_free_synode(<< InitSite(n) >>, InitExecuted(n))]
  /\ xc = [n \in Nodes |-> InitContext]
  /\ delay_fifo = [n \in Nodes |-> << >>]
  /\ pax = [n \in Nodes |-> << >>]
  /\ app_log = [n \in Nodes |-> << >>]
  /\ installs = [n \in Nodes |-> << >>]
  /\ lsn_log = [n \in Nodes |-> << >>]
  /\ net = NoTraffic
  /\ prop_input_queue = [n \in Nodes |-> << >>]
  /\ prop = [n \in Nodes |-> InitProposer]
  /\ participate_paxos = [n \in Nodes |-> {}]
  /\ all_nodes_valid = [n \in Nodes |-> 0]
  /\ client_boot_done = [n \in Nodes |-> 1]
  /\ cache_full = [n \in Nodes |-> FALSE]
  /\ sweep_find =
       [n \in Nodes |-> get_sweep_start(<< InitSite(n) >>, InitExecuted(n))]
  /\ clients = [n \in Nodes |-> 0]
  /\ lifecycle = [n \in Nodes |-> RunLifecycle(InitSite(n))]
  /\ lost = 0
  /\ fills = 0

\* store the engine record of node e.self back into the variables
Commit(e) ==
  /\ site_defs' = [site_defs EXCEPT ![e.self] = e.sd]
  /\ executed_msg' = [executed_msg EXCEPT ![e.self] = e.ex]
  /\ delivered_msg' = [delivered_msg EXCEPT ![e.self] = e.dl]
  /\ max_synode' = [max_synode EXCEPT ![e.self] = e.mx]
  /\ current_message' = [current_message EXCEPT ![e.self] = e.cm]
  /\ xc' = [xc EXCEPT ![e.self] = e.xc]
  /\ delay_fifo' = [delay_fifo EXCEPT ![e.self] = e.fifo]
  /\ app_log' = [app_log EXCEPT ![e.self] = e.log]
  /\ installs' = [installs EXCEPT ![e.self] = e.ins]
  /\ lsn_log' = [lsn_log EXCEPT ![e.self] = e.lsns]
  /\ pax' = [pax EXCEPT ![e.self] = e.pm]
  /\ prop_input_queue' = [prop_input_queue EXCEPT ![e.self] = e.queue]
  /\ prop' = [prop EXCEPT ![e.self] = e.prop]
  /\ participate_paxos' = [participate_paxos EXCEPT ![e.self] = e.pp]
  /\ all_nodes_valid' = [all_nodes_valid EXCEPT ![e.self] = e.anv]
  /\ client_boot_done' = [client_boot_done EXCEPT ![e.self] = e.boot]
  /\ cache_full' = [cache_full EXCEPT ![e.self] = e.full]
  /\ sweep_find' = [sweep_find EXCEPT ![e.self] = e.find]
  /\ lifecycle' = [lifecycle EXCEPT ![e.self] = e.fsm]

(* ------------------------------------------------------------------ *)
(* Executor task steps                                                *)
(* ------------------------------------------------------------------ *)
\* executor_task in state x_fetch, get_xcom_message has returned a
\* finished machine
ExecutorFetch(n) ==
  /\ xc[n].state = "x_fetch"
  /\ finished(get_cache(pax[n], executed_msg[n]))
  /\ Commit(x_fetch(Engine(n),
                    get_cache(pax[n], executed_msg[n]).learner.msg))
  /\ UNCHANGED << net, clients, lost, fills >>

ExecutorExecute(n) ==
  /\ xc[n].state = "x_execute"
  /\ Commit(x_execute(Engine(n),
                      get_cache(pax[n], delivered_msg[n]).learner.msg))
  /\ UNCHANGED << net, clients, lost, fills >>

ExecutorTerminate(n) ==
  /\ xc[n].state = "x_terminate"
  /\ Commit(x_terminate(Engine(n)))
  /\ UNCHANGED << net, clients, lost, fills >>

(* ------------------------------------------------------------------ *)
(* Reconfiguration specification: one node's executor, fed with the    *)
(* values the group has learned                                        *)
(* ------------------------------------------------------------------ *)
CfgNode == InitNodes[1]
\* message numbers up to which the group learns values other than no_op
MaxBusy == 3
\* number of application messages the group learns
MaxApps == 1

CfgCommands(k) ==
  { AppData("add_node_type", 0, k, << 2 >>, 0),
    AppData("remove_node_type", 0, k, << CfgNode >>, 0),
    AppData("remove_node_type", 0, k, << 1 >>, 0),
    AppData("remove_node_type", 0, k, << 0, 1, 2 >>, 0),
    AppData("set_event_horizon_type", 0, k, << >>, EVENT_HORIZON_MIN + 1) }

LearnedCount(n, P(_)) ==
  Cardinality({ s \in DOMAIN pax[n] : P(pax[n][s].learner.msg) })

CfgValues(n, k) ==
  { NoOpValue }
  \cup { Value("normal", AppData("app_type", 1, k, << >>, 0)) :
           x \in { y \in {1} :
                     /\ k.msgno <= MaxBusy
                     /\ LearnedCount(n, LAMBDA m : m.a.c_t = "app_type")
                          < MaxApps } }
  \cup { Value("normal", a) :
           a \in { c \in CfgCommands(k) :
                     /\ k.msgno <= MaxBusy
                     /\ LearnedCount(n, LAMBDA m : is_config(m.a.c_t))
                          < MaxConfigs } }

\* a learn_op for executed_msg arrives
CfgLearn(n) ==
  /\ xc[n].state = "x_fetch"
  /\ executed_msg[n].msgno <= MaxRun
  /\ ~finished(get_cache(pax[n], executed_msg[n]))
  /\ \E v \in CfgValues(n, executed_msg[n]) :
       LET s == executed_msg[n]
           m == PaxMsg(s.node, n, "learn_op", s, Ballot(0, s.node),
                       Ballot(0, s.node), v.msg_type, v.a, 0)
       IN /\ pax' = [pax EXCEPT ![n] =
                       put_cache(pax[n],
                                 handle_learn(get_cache(pax[n], s), m))]
          \* update_max_synode, as dispatch_op calls it for learn_op
          /\ max_synode' = [max_synode EXCEPT ![n] =
                              IF synode_gt(s, @) THEN s ELSE @]
  /\ UNCHANGED << site_defs, executed_msg, delivered_msg,
                  current_message, xc, delay_fifo, app_log, installs,
                  lsn_log >>
  /\ UNCHANGED paxos_vars

CfgNext ==
  \/ CfgLearn(CfgNode)
  \/ ExecutorFetch(CfgNode)
  \/ ExecutorExecute(CfgNode)
  \/ ExecutorTerminate(CfgNode)

SpecCfg == InitEngine /\ [][CfgNext]_vars

ExecutedSynodes(n) ==
  { s \in { Synode(m, k) : m \in 1 .. executed_msg[n].msgno, k \in Nodes } :
      ~synode_gt(s, executed_msg[n]) }

Removals(n) ==
  { i \in 1 .. Len(installs[n]) : installs[n][i].site.nodeno = VOID_NODE_NO }
FirstRemoval(n) ==
  installs[n][CHOOSE i \in Removals(n) : \A j \in Removals(n) : i <= j].site

\* C10: the executor is in its terminate state only when executed_msg >=
\* C'.start + H(C') and delivered_msg >= C'.start, C' the first configuration
\* without the local node, and then every value other than no_op learned
\* at a synode before C'.start has been handed to execute_msg.
C10_ExitOnRemoval ==
  \A n \in Nodes :
    xc[n].state \in {"x_terminate", "null"} =>
      /\ Removals(n) # {}
      /\ LET c == FirstRemoval(n)
         IN /\ ~synode_lt(executed_msg[n],
                          compute_delay(c.start, c.event_horizon))
            /\ ~synode_lt(delivered_msg[n], c.start)
            /\ \A s \in DOMAIN pax[n] :
                 ( /\ synode_lt(s, c.start)
                   /\ finished(pax[n][s])
                   /\ pax[n][s].learner.msg.msg_type # "no_op" )
                 => \E i \in 1 .. Len(app_log[n]) : app_log[n][i][1] = s

\* C10 witness: the executor has terminated after a removal, having
\* delivered an application message first
C10_Witness ==
  /\ xc[CfgNode].state = "x_terminate"
  /\ xc[CfgNode].exit_flag = 1
  /\ Len(app_log[CfgNode]) > 0
  /\ Len(installs[CfgNode]) = 2

\* C11: a node removed by configuration C' never hands to execute_msg a
\* value whose synode is at or after C'.start, the start C' had when it
\* was applied, although its executor fetches synodes up to
\* C'.start + H(C') before it ends.
C11_NoDeliveryAfterRemoval ==
  \A n \in Nodes : \A r \in Removals(n) : \A i \in 1 .. Len(app_log[n]) :
    synode_lt(app_log[n][i][1], installs[n][r].site.start)

\* C11 witness: the executor of a removed node has fetched and passed a
\* value other than no_op at or after the start of the removing
\* configuration
C11_Witness ==
  \E n \in Nodes : \E s \in DOMAIN pax[n] :
    /\ Removals(n) # {}
    /\ ~synode_lt(s, FirstRemoval(n).start)
    /\ finished(pax[n][s])
    /\ pax[n][s].learner.msg.msg_type # "no_op"
    /\ synode_gt(delivered_msg[n], s)

\* C17: in every reachable state executed_msg <= max_synode in synode
\* order.
C17_ExecutedNotBeyondMax ==
  \A n \in Nodes : ~synode_gt(executed_msg[n], max_synode[n])

\* C18: while the executor task runs delivered_msg <= executed_msg; the
\* executor is in its execute state only while delivered_msg <
\* executed_msg, and a step of the execute state ends in the fetch state
\* exactly when it makes delivered_msg equal to executed_msg.
C18_DeliveredNotBeyondExecuted ==
  /\ [](\A n \in Nodes :
          /\ xc[n].state # "null" =>
               ~synode_gt(delivered_msg[n], executed_msg[n])
          /\ xc[n].state = "x_execute" =>
               synode_lt(delivered_msg[n], executed_msg[n]))
  /\ [][\A n \in Nodes :
          xc[n].state = "x_execute" /\ xc'[n].state # "x_terminate" =>
            (xc'[n].state = "x_fetch"
               <=> synode_eq(delivered_msg'[n], executed_msg'[n]))]_vars

\* C18 witness: the executor is in its execute state more than one synode
\* behind executed_msg, having delivered a message
C18_Witness ==
  \E n \in Nodes :
    /\ xc[n].state = "x_execute"
    /\ Len(app_log[n]) > 0
    /\ synode_lt(incr_synode(site_defs[n], delivered_msg[n]),
                 executed_msg[n])

(* ------------------------------------------------------------------ *)
(* Transport: messages are queued in e.out, per connection, with the  *)
(* node number of the sender, the node number of the receiver and the *)
(* receiver's address                                                 *)
(* ------------------------------------------------------------------ *)
AllNodenos(site) == 0 .. (get_maxnodes(site) - 1)

send_to(e, site, m, dests) ==
  [e EXCEPT !.out =
     [c \in Chans |->
        IF /\ c[1] = e.self /\ c[3] = "req"
           /\ \E i \in dests : site.nodes[i + 1] = c[2]
        THEN LET i == CHOOSE i \in dests : site.nodes[i + 1] = c[2]
             IN Append(e.out[c], [m EXCEPT !.from = get_nodeno(site),
                                           !.to = i, !.dst = c[2]])
        ELSE e.out[c]]]

\* a reply is written back on the connection its request came on
send_reply(e, reply) ==
  IF reply.dst \in Nodes
  THEN [e EXCEPT !.out[<< e.self, reply.dst, "rep" >>] = Append(@, reply)]
  ELSE e

send_to_all_site(e, site, m) == send_to(e, site, m, AllNodenos(site))
send_to_all(e, m) == send_to_all_site(e, find_site_def(e.sd, m.synode), m)
send_to_acceptors(e, m) == send_to_all(e, m)
send_to_others(e, site, m) ==
  send_to(e, site, m, AllNodenos(site) \ {get_nodeno(site)})
send_to_filtered_others(e, site, m, filtered_node) ==
  send_to(e, site, m, AllNodenos(site) \ {get_nodeno(site), filtered_node})

is_local_node(n, site) == n = get_nodeno(site)

\* CREATE_REPLY, with the addressing the reply gets when it is written back
CREATE_REPLY(site, m) ==
  [m EXCEPT !.a = NoApp, !.from = m.to, !.to = m.from,
            !.dst = IF m.from \in AllNodenos(site)
                    THEN site.nodes[m.from + 1] ELSE VOID_NODE_NO]

PutM(e, p) == [e EXCEPT !.pm = put_cache(e.pm, p)]
Machine(e, s) == get_cache(e.pm, s)

(* ------------------------------------------------------------------ *)
(* Paxos message construction                                         *)
(* ------------------------------------------------------------------ *)
prepare(m, op) == [m EXCEPT !.op = op, !.reply_to = m.proposal]

\* brands the app data and loses the identity the client gave it
brand_anonymous_app_data(m) ==
  IF m.a.c_t = "none" THEN m
  ELSE [m EXCEPT !.a.app_key = m.synode, !.a.id = 0]

brand_app_data(m) ==
  IF m.a.c_t = "none" THEN m ELSE [m EXCEPT !.a.app_key = m.synode]

init_propose_msg(m) ==
  brand_app_data([m EXCEPT !.op = "accept_op", !.reply_to = m.proposal])

ArrayIndex(msgno) == msgno % MAX_ARRAY_LEN

prepare_msg(e, m) ==
  send_to_acceptors([e EXCEPT !.pp = e.pp \cup {ArrayIndex(m.synode.msgno)}],
                    prepare(m, "prepare_op"))

send_propose_msg(e, m) ==
  send_to_acceptors([e EXCEPT !.pp = e.pp \cup {ArrayIndex(m.synode.msgno)}],
                    m)

set_learn_type(m) ==
  [m EXCEPT !.op = "learn_op",
            !.msg_type = IF m.a.c_t = "none" THEN "no_op" ELSE "normal"]

create_tiny_learn_msg(p, m) ==
  [m EXCEPT !.a = NoApp,
            !.msg_type = IF m.a.c_t = "none" THEN "no_op" ELSE "normal",
            !.op = "tiny_learn_op", !.reply_to = p.proposer.bal]

Max(a, b) == IF a > b THEN a ELSE b

\* the ballot count of the next three-phase round of machine p
NextBallot(p) == Max(p.proposer.bal.cnt, p.acceptor.promise.cnt) + 1

\* prepare_push_3p taking the ballot above that of the proposer, whatever
\* the acceptor has promised
prepare_push_3p_own_ballot(site, p, msg, msgno, msg_type) ==
  LET bal == Ballot(p.proposer.bal.cnt + 1, get_nodeno(site))
  IN << [p EXCEPT !.proposer.prep_nodeset = {}, !.proposer.bal = bal],
        [msg EXCEPT !.synode = msgno, !.proposal = bal,
                    !.msg_type = msg_type,
                    !.force_delivery = p.force_delivery] >>

\* << the machine, the prepare message >>
prepare_push_3p(site, p, msg, msgno, msg_type) ==
  LET bal == Ballot(NextBallot(p), get_nodeno(site))
  IN << [p EXCEPT !.proposer.prep_nodeset = {}, !.proposer.bal = bal],
        [msg EXCEPT !.synode = msgno, !.proposal = bal,
                    !.msg_type = msg_type,
                    !.force_delivery = p.force_delivery] >>

prepare_push_2p(site, p) ==
  LET bal == Ballot(0, get_nodeno(site))
  IN [p EXCEPT !.proposer.prop_nodeset = {}, !.proposer.bal = bal,
               !.proposer.msg.proposal = bal,
               !.proposer.msg.synode = p.synode,
               !.proposer.msg.force_delivery = p.force_delivery]

push_msg_2p(e, site, p) ==
  LET p1 == prepare_push_2p(site, p)
      p2 == [p1 EXCEPT !.proposer.msg = init_propose_msg(p1.proposer.msg)]
  IN send_propose_msg(PutM(e, p2), p2.proposer.msg)

INT32_MAX == 2147483647

\* force_pax_machine raising the count whenever the node is the enforcer
force_pax_machine_every_time(p, enforcer) ==
  [p EXCEPT
     !.proposer.bal.cnt =
        IF enforcer # 0 THEN @ + ((INT32_MAX - Max(@, 0)) \div 3) ELSE @,
     !.force_delivery = 1, !.enforcer = enforcer]

force_pax_machine(p, enforcer) ==
  [p EXCEPT
     !.proposer.bal.cnt =
        IF p.enforcer = 0 /\ enforcer # 0
        THEN @ + ((INT32_MAX - Max(@, 0)) \div 3) ELSE @,
     !.force_delivery = 1, !.enforcer = enforcer]

push_msg_3p(e, site, p, msg, msgno, msg_type) ==
  LET r == prepare_push_3p(site,
                           IF e.fsm.wait_forced_config # 0
                           THEN force_pax_machine(p, 1) ELSE p,
                           msg, msgno, msg_type)
  IN prepare_msg(PutM(e, r[1]), r[2])

(* ------------------------------------------------------------------ *)
(* Majority                                                           *)
(* ------------------------------------------------------------------ *)
\* majority that is content with half of the nodes
majority_of_half(forced_config, nodeset, site, all, force) ==
  LET ok == Cardinality(nodeset \cap AllNodenos(site))
      max == get_maxnodes(site)
  IN IF force THEN ok = get_maxnodes(forced_config)
     ELSE IF all THEN ok = max ELSE ok >= max \div 2

\* forced_config is the configuration being forced, NoSite when none is
majority(forced_config, nodeset, site, all, force) ==
  LET ok == Cardinality(nodeset \cap AllNodenos(site))
      max == get_maxnodes(site)
  IN IF force THEN ok = get_maxnodes(forced_config)
     ELSE IF all THEN ok = max ELSE ok > max \div 2

\* the payload of the proposal asks for the answers of all nodes
IS_CONS_ALL(p) ==
  p.proposer.msg.a.c_t # "none" /\ p.proposer.msg.a.consensus = "cons_all"

prep_majority(forced_config, site, p) ==
  majority(forced_config, p.proposer.prep_nodeset, site, IS_CONS_ALL(p),
           p.proposer.msg.force_delivery # 0 \/ p.force_delivery # 0)

prop_majority(forced_config, site, p) ==
  majority(forced_config, p.proposer.prop_nodeset, site, IS_CONS_ALL(p),
           p.proposer.msg.force_delivery # 0 \/ p.force_delivery # 0)

(* ------------------------------------------------------------------ *)
(* Handlers of incoming messages.  A handler takes the engine record   *)
(* of the receiving node and returns it changed; replies to the local  *)
(* node are dispatched at once, the others are queued in e.out         *)
(* ------------------------------------------------------------------ *)
RECURSIVE dispatch_consensus_op(_, _, _)

\* the reply to the local node is dispatched within the handler, as its
\* last statement: the test for an abort that ends dispatch_op is made by
\* the call the handler was dispatched from
reply_msg(e, site, m, reply) ==
  IF is_local_node(m.from, site) THEN dispatch_consensus_op(e, site, reply)
  ELSE send_reply(e, reply)

create_learn_msg_for_ignorant_node(site, p, m, synode) ==
  set_learn_type([CREATE_REPLY(site, m) EXCEPT
                    !.synode = synode,
                    !.proposal = p.learner.msg.proposal,
                    !.msg_type = p.learner.msg.msg_type,
                    !.a = p.learner.msg.a])

handle_read(e, site, p, m) ==
  IF finished(p)
  THEN reply_msg(e, site, m,
                 create_learn_msg_for_ignorant_node(site, p, m, m.synode))
  ELSE e

create_ack_prepare_msg(site, p, m, synode) ==
  IF accepted(p)
  THEN [CREATE_REPLY(site, m) EXCEPT
          !.synode = synode, !.proposal = p.acceptor.msg.proposal,
          !.msg_type = p.acceptor.msg.msg_type, !.op = "ack_prepare_op",
          !.a = p.acceptor.msg.a]
  ELSE [CREATE_REPLY(site, m) EXCEPT
          !.synode = synode, !.op = "ack_prepare_empty_op"]

\* << the machine, the reply or NoPaxMsg >>
\* handle_simple_prepare that takes the ballot of every prepare as promise
handle_simple_prepare_unguarded(site, p, m, synode) ==
  IF finished(p)
  THEN << p, create_learn_msg_for_ignorant_node(site, p, m, synode) >>
  ELSE << [p EXCEPT !.acceptor.promise = m.proposal],
          create_ack_prepare_msg(site,
                                 [p EXCEPT !.acceptor.promise = m.proposal],
                                 m, synode) >>

handle_simple_prepare(site, p, m, synode) ==
  IF finished(p)
  THEN << p, create_learn_msg_for_ignorant_node(site, p, m, synode) >>
  ELSE LET greater == gt_ballot(m.proposal, p.acceptor.promise)
           p1 == IF greater THEN [p EXCEPT !.acceptor.promise = m.proposal]
                 ELSE p
       IN IF greater \/ noop_match(p, m)
          THEN << p1, create_ack_prepare_msg(site, p1, m, synode) >>
          ELSE << p, NoPaxMsg >>

handle_prepare(e, site, p, m) ==
  LET answer(r) ==
        IF r[2].op # "null" THEN reply_msg(PutM(e, r[1]), site, m, r[2])
        ELSE PutM(e, r[1])
  IN answer(handle_simple_prepare(site, p, m, m.synode))

\* << the machine, can_propose >>
check_propose(forced_config, site, p) ==
  IF prep_majority(forced_config, site, p)
  THEN << [p EXCEPT
             !.proposer.msg =
                init_propose_msg([p.proposer.msg EXCEPT
                                    !.proposal = p.proposer.bal,
                                    !.synode = p.synode]),
             !.proposer.prop_nodeset = {},
             !.proposer.sent_prop = p.proposer.bal], TRUE >>
  ELSE << p, FALSE >>

\* << the machine, the learn message or NoPaxMsg >>
check_learn(forced_config, site, p) ==
  IF /\ get_nodeno(site) # VOID_NODE_NO
     /\ prop_majority(forced_config, site, p)
  THEN LET p1 == [p EXCEPT !.proposer.msg.synode = p.synode]
           learn_msg ==
             IF no_duplicate_payload = 1
             THEN create_tiny_learn_msg(p1, p1.proposer.msg)
             ELSE brand_app_data(
                    [set_learn_type(p1.proposer.msg) EXCEPT
                       !.reply_to = p1.proposer.msg.proposal])
       IN << [p1 EXCEPT
                !.proposer.msg = IF no_duplicate_payload = 1
                                 THEN p1.proposer.msg ELSE learn_msg,
                !.proposer.sent_learn = p.proposer.bal], learn_msg >>
  ELSE << p, NoPaxMsg >>

\* handle_simple_ack_prepare taking the proposal of every answer that
\* reports one, whatever its ballot
handle_simple_ack_prepare_any_report(forced_config, site, p, m) ==
  LET p1 == IF get_nodeno(site) # VOID_NODE_NO
            THEN [p EXCEPT !.proposer.prep_nodeset = @ \cup {m.from}]
            ELSE p
      p2 == IF m.op = "ack_prepare_op"
            THEN [p1 EXCEPT !.proposer.msg = m]
            ELSE p1
  IN IF gt_ballot(m.reply_to, p2.proposer.sent_prop)
     THEN check_propose(forced_config, site, p2)
     ELSE << p2, FALSE >>

\* << the machine, can_propose >>
handle_simple_ack_prepare(forced_config, site, p, m) ==
  LET p1 == IF get_nodeno(site) # VOID_NODE_NO
            THEN [p EXCEPT !.proposer.prep_nodeset = @ \cup {m.from}]
            ELSE p
      p2 == IF /\ m.op = "ack_prepare_op"
               /\ gt_ballot(m.proposal, p1.proposer.msg.proposal)
            THEN [p1 EXCEPT !.proposer.msg = m]
            ELSE p1
  IN IF gt_ballot(m.reply_to, p2.proposer.sent_prop)
     THEN check_propose(forced_config, site, p2)
     ELSE << p2, FALSE >>

handle_ack_prepare(e, site, p, m) ==
  IF finished(p) THEN e
  ELSE IF m.from # VOID_NODE_NO /\ eq_ballot(p.proposer.bal, m.reply_to)
       THEN LET answer(r) ==
                  IF r[2]
                  THEN send_propose_msg(PutM(e, r[1]), r[1].proposer.msg)
                  ELSE PutM(e, r[1])
            IN answer(handle_simple_ack_prepare(e.fsm.forced_config, site,
                                                p, m))
       ELSE e

create_ack_accept_msg(site, m, synode, skip_flag) ==
  [CREATE_REPLY(site, m) EXCEPT
     !.op = IF skip_flag THEN "multi_ack_accept_op" ELSE "ack_accept_op",
     !.synode = synode]

\* << the machine, the reply or NoPaxMsg >>
\* handle_simple_accept that takes every accept, whatever was promised
handle_simple_accept_unpromised(site, p, m, synode, skip_flag) ==
  IF finished(p)
  THEN << p, create_learn_msg_for_ignorant_node(site, p, m, synode) >>
  ELSE << [p EXCEPT !.acceptor.msg = m],
          create_ack_accept_msg(site, m, synode, skip_flag) >>

\* << the machine, the reply or NoPaxMsg >>
handle_simple_accept(site, p, m, synode, skip_flag) ==
  IF finished(p)
  THEN << p, create_learn_msg_for_ignorant_node(site, p, m, synode) >>
  ELSE IF ~gt_ballot(p.acceptor.promise, m.proposal) \/ noop_match(p, m)
       THEN << [p EXCEPT !.acceptor.msg = m],
               create_ack_accept_msg(site, m, synode, skip_flag) >>
       ELSE << p, NoPaxMsg >>

\* get_cache returns a machine: the synode is cached or one can be allocated
cache_available(e, synode) == is_cached(e.pm, synode) \/ ~e.full

synode_msgno_not_gt(x, y) == x.msgno <= y.msgno

create_noop(m) == [prepare(m, "prepare_op") EXCEPT !.msg_type = "no_op"]

create_read(site, m) ==
  prepare([m EXCEPT !.msg_type = "normal",
                    !.proposal.node = get_nodeno(site)], "read_op")

skip_msg(e, m) ==
  send_to_all(e, [prepare(m, "skip_op") EXCEPT !.msg_type = "no_op"])

send_skip_msg_to_others(e, site, m, filtered_node) ==
  send_to_filtered_others(e, site, m, filtered_node)

handle_accept(e, site, p, m) ==
  LET msg_no == Synode(m.synode.msgno, get_nodeno(site))
      may_skip ==
        /\ m.synode.msgno > MAX_PROPOSER_ONLINE
        /\ ~site.null
        /\ get_nodeno(site) # m.synode.node
        /\ m.synode.node = m.from
        /\ e.anv # 0
        /\ ArrayIndex(m.synode.msgno) \notin e.pp
        /\ e.queue = << >>
        /\ synode_msgno_not_gt(e.ex, msg_no)
        /\ cache_available(e, msg_no)
      over_skip == may_skip /\ msg_no.msgno - e.ex.msgno >= SKIP_OVER_NUM
      skip_flag == may_skip /\ ~over_skip
      msg == [prepare(pax_msg_new(msg_no, site), "skip_op") EXCEPT
                !.msg_type = "no_op"]
      skipped(es) ==
        [PutM(es, handle_skip(Machine(es, msg_no), msg)) EXCEPT
           !.pp = @ \cup {ArrayIndex(m.synode.msgno)}]
      retired(e1) ==
        IF m.synode.msgno > MAX_PROPOSER_ONLINE /\ ~over_skip
        THEN [e1 EXCEPT !.pp = @ \
                {ArrayIndex(m.synode.msgno - MAX_PROPOSER_ONLINE)}]
        ELSE e1
      answer(e3, reply) ==
        IF reply.op # "null" THEN reply_msg(e3, site, m, reply) ELSE e3
      accept(e2, r) == answer(PutM(e2, r[1]), r[2])
  IN accept(retired(IF skip_flag
                    THEN skipped(send_skip_msg_to_others(e, site, msg,
                                                         m.synode.node))
                    ELSE IF may_skip THEN PutM(e, Machine(e, msg_no))
                    ELSE e),
            handle_simple_accept(site, p, m, m.synode, skip_flag))

\* handle_simple_ack_accept counting the answers to every ballot
handle_simple_ack_accept_any_ballot(forced_config, site, p, m) ==
  IF /\ get_nodeno(site) # VOID_NODE_NO
     /\ m.from # VOID_NODE_NO
  THEN LET p1 == [p EXCEPT !.proposer.prop_nodeset = @ \cup {m.from}]
       IN IF gt_ballot(m.proposal, p1.proposer.sent_learn)
          THEN check_learn(forced_config, site, p1)
          ELSE << p1, NoPaxMsg >>
  ELSE << p, NoPaxMsg >>

\* << the machine, the learn message or NoPaxMsg >>
handle_simple_ack_accept(forced_config, site, p, m) ==
  IF /\ get_nodeno(site) # VOID_NODE_NO
     /\ m.from # VOID_NODE_NO
     /\ eq_ballot(p.proposer.bal, m.reply_to)
  THEN LET p1 == [p EXCEPT !.proposer.prop_nodeset = @ \cup {m.from}]
       IN IF gt_ballot(m.proposal, p1.proposer.sent_learn)
          THEN check_learn(forced_config, site, p1)
          ELSE << p1, NoPaxMsg >>
  ELSE << p, NoPaxMsg >>

handle_ack_accept(e, site, p, m) ==
  LET answer(r) ==
        IF r[2].op # "null" THEN send_to_all(PutM(e, r[1]), r[2])
        ELSE PutM(e, r[1])
  IN answer(handle_simple_ack_accept(e.fsm.forced_config, site, p, m))

update_max_synode(e, m) ==
  IF synode_gt(m.synode, e.mx) THEN set_max_synode(e, m.synode) ELSE e

send_read(e, find) ==
  LET read(site, pm) ==
        IF site.null THEN e
        ELSE IF find.node # get_nodeno(site)
             THEN IF get_nodeno(site) = VOID_NODE_NO
                  THEN send_to_others(e, site, pm)
                  ELSE send_to(e, site, pm,
                               {e.someone} \cap AllNodenos(site))
             ELSE send_to_others(e, site, pm)
      from(site) == read(site, create_read(site, pax_msg_new(find, site)))
  IN from(find_site_def(e.sd, find))

\* handle_tiny_learn that learns what the machine has accepted whatever
\* its ballot
handle_tiny_learn_any_ballot(e, site, pm, p) ==
  IF pm.acceptor.msg.op # "null"
  THEN PutM(update_max_synode(e, p),
            handle_learn([pm EXCEPT !.acceptor.msg.op = "learn_op"],
                         [pm.acceptor.msg EXCEPT !.op = "learn_op"]))
  ELSE send_read(e, p.synode)

handle_tiny_learn(e, site, pm, p) ==
  IF /\ pm.acceptor.msg.op # "null"
     /\ eq_ballot(pm.acceptor.msg.proposal, p.proposal)
  THEN LET \* the op is written into the message acceptor.msg points
           \* to, which is the message of learner.msg once do_learn has
           \* stored it in both
           learn(am) ==
             PutM(update_max_synode(e, p),
                  handle_learn([pm EXCEPT
                                  !.acceptor.msg = am,
                                  !.learner.msg =
                                    IF finished(pm) THEN am ELSE @], am))
       IN learn([pm.acceptor.msg EXCEPT !.op = "learn_op"])
  ELSE send_read(e, p.synode)

(* ------------------------------------------------------------------ *)
(* The lifecycle state machine xcom_fsm.  Every state function returns *)
(* << the engine, 1 when xcom_fsm_impl is to call the next state >>    *)
(* ------------------------------------------------------------------ *)
\* the group id new_id has given to the group of this model
GroupId == 1

get_group_id(site) == IF site.null THEN 0 ELSE GroupId

bury_site(e, id) ==
  IF id # 0
  THEN [e EXCEPT
          !.fsm.dead_sites =
             [n |-> (e.fsm.dead_sites.n + 1) % MAX_DEAD,
              id |-> [e.fsm.dead_sites.id EXCEPT
                        ![e.fsm.dead_sites.n % MAX_DEAD] = id]]]
  ELSE e

is_dead_site(e, id) ==
  \E i \in 0 .. (MAX_DEAD - 1) :
    /\ e.fsm.dead_sites.id[i] = id
    /\ \A j \in 0 .. (i - 1) : e.fsm.dead_sites.id[j] # 0

init_xcom_base(e) ==
  [e EXCEPT !.fsm.xcom_shutdown = 0, !.cm = null_synode,
            !.ex = null_synode, !.dl = null_synode, !.mx = null_synode,
            !.boot = 0, !.sd = push_site_def(e.sd, NoSite), !.fsm.lsn = 0]

free_site_defs(e) == [e EXCEPT !.sd = << >>]

empty_prop_input_queue(e) == [e EXCEPT !.queue = << >>]

xcom_thread_init(e) ==
  [init_xcom_base(free_site_defs(e)) EXCEPT
     !.queue = << >>, !.pm = << >>, !.fsm.tasks = {}]

create_site_def_with_start(e, a, start) ==
  Site(start, a.app_key, a.nodes, EVENT_HORIZON_MIN,
       xcom_find_node_index(a.nodes, e.self))

install_node_group(e, a) ==
  site_install_action(e, create_site_def_with_start(e, a, getstart(e, a)))

set_proposer_startpoint(e) ==
  LET first(e1) ==
        IF synode_gt(e1.ex, e1.cm)
        THEN [e1 EXCEPT !.cm = first_free_synode(e1.sd, e1.ex)]
        ELSE e1
  IN first(IF synode_gt(e.mx, e.cm)
           THEN [e EXCEPT
                   !.cm = IF e.mx.msgno <= 1
                          THEN first_free_synode(e.sd, e.mx)
                          ELSE incr_msgno(e.sd,
                                          first_free_synode(e.sd, e.mx))]
           ELSE e)

\* get_cache is taken to give a machine: force_interval asserts it
RECURSIVE force_interval(_, _, _, _)
force_interval(e, start, end, enforcer) ==
  IF synode_gt(start, end) THEN e
  ELSE IF get_nodeno(find_site_def(e.sd, start)) = VOID_NODE_NO
       THEN PutM(e, Machine(e, start))
       ELSE LET forced(p, enf) ==
                  force_interval(
                    PutM(e, [force_pax_machine(p, enf) EXCEPT
                               !.proposer.prep_nodeset = {},
                               !.proposer.prop_nodeset = {}]),
                    incr_synode(e.sd, start), end, enf)
                from(p) == forced(p, IF p.enforcer # 0 THEN 1 ELSE enforcer)
            IN from(Machine(e, start))

start_force_config(e, s, enforcer) ==
  LET start(e1) == force_interval(e1, e1.ex, e1.mx, enforcer)
      to(end) ==
        start([IF synode_gt(end, e.mx) THEN set_max_synode(e, end)
               ELSE e EXCEPT !.fsm.forced_config = s,
                             !.fsm.wait_forced_config = 0])
  IN to(add_event_horizon(e.sd, e.ex, s.boot_key))

(* Snapshots.  A gcs_snapshot is [configs, log_start, log_end], configs *)
(* being sites, the newest first                                       *)
config_max_boot_key(gcs) ==
  IF gcs.configs = << >> THEN null_synode
  ELSE gcs.configs[CHOOSE i \in 1 .. Len(gcs.configs) :
                     \A j \in 1 .. Len(gcs.configs) :
                       ~synode_gt(gcs.configs[j].boot_key,
                                  gcs.configs[i].boot_key)].boot_key

\* import_config installs the configurations of the snapshot that are
\* newer than the latest site, the oldest first
RECURSIVE import_config_from(_, _, _)
import_config_from(e, gcs, i) ==
  IF i = 0 THEN e
  ELSE import_config_from(
         IF \/ get_site_def(e.sd).null
            \/ synode_gt(gcs.configs[i].boot_key,
                         get_site_def(e.sd).boot_key)
         THEN site_install_action(e, gcs.configs[i])
         ELSE e, gcs, i - 1)

import_config(e, gcs) == import_config_from(e, gcs, Len(gcs.configs))

set_log_end(e, gcs) ==
  IF synode_gt(e.mx, gcs.log_end) THEN [gcs EXCEPT !.log_end = e.mx]
  ELSE gcs

handle_x_snapshot(e, gcs) ==
  LET install(e1, log_end) ==
        [set_executed_msg(set_max_synode(e1, log_end),
                          incr_synode(e1.sd, gcs.log_start)) EXCEPT
           !.fsm.log_start_max = gcs.log_start,
           !.fsm.log_end_max = log_end]
      imported(e1) ==
        install(e1, IF get_nodeno(get_site_def(e1.sd)) = VOID_NODE_NO
                    THEN gcs.log_start ELSE gcs.log_end)
  IN imported(import_config(e, gcs))

\* better_snapshot comparing the boot keys only
better_snapshot_boot_key_only(e, gcs) ==
  synode_gt(config_max_boot_key(gcs), get_site_def(e.sd).boot_key)

better_snapshot(e, gcs) ==
  LET better(boot_key, site) ==
        \/ synode_gt(boot_key, site.boot_key)
        \/ /\ synode_eq(boot_key, site.boot_key)
           /\ \/ synode_gt(gcs.log_start, e.fsm.log_start_max)
              \/ /\ synode_eq(gcs.log_start, e.fsm.log_start_max)
                 /\ synode_gt(gcs.log_end, e.fsm.log_end_max)
  IN better(config_max_boot_key(gcs), get_site_def(e.sd))

update_best_snapshot(e, gcs) ==
  IF get_site_def(e.sd).null \/ better_snapshot(e, gcs)
  THEN handle_x_snapshot(e, gcs)
  ELSE e

note_snapshot(e, node) ==
  IF node # VOID_NODE_NO THEN [e EXCEPT !.fsm.snapshots = @ \cup {node}]
  ELSE e

reset_snapshot_mask(e) == [e EXCEPT !.fsm.snapshots = {}]

got_all_snapshots(e) ==
  /\ get_maxnodes(get_site_def(e.sd)) # 0
  /\ \A i \in 0 .. (get_maxnodes(get_site_def(e.sd)) - 1) :
       i \in e.fsm.snapshots

send_x_fsm_complete(e) == [e EXCEPT !.fsm.x_fsm_completion = @ + 1]

send_need_boot(e) ==
  LET site == get_site_def(e.sd)
  IN send_to_others(e, site,
                    [pax_msg_new(site.start, site) EXCEPT
                       !.op = "need_boot_op"])

stop_x_timer(e) == [e EXCEPT !.fsm.x_timer = 0]
start_x_timer(e) == [e EXCEPT !.fsm.x_timer = 1]

SET_X_FSM_STATE(e, state) == [e EXCEPT !.fsm.state = state]

xcom_fsm_init(e) ==
  << SET_X_FSM_STATE(xcom_thread_init(e), "xcom_fsm_start_enter"), 1 >>

xcom_fsm_start_enter(e) ==
  << SET_X_FSM_STATE(reset_snapshot_mask(empty_prop_input_queue(e)),
                     "xcom_fsm_start"), 1 >>

handle_fsm_net_boot(e, a, cont) ==
  LET booted(e1, start) ==
        << SET_X_FSM_STATE(
             set_executed_msg(empty_prop_input_queue(e1),
                              IF start.msgno = 0
                              THEN Synode(1, start.node) ELSE start),
             "xcom_fsm_run_enter"), 1 >>
      installed(e1) ==
        IF is_member(get_site_def(e1.sd))
        THEN booted(e1, get_site_def(e1.sd).start)
        ELSE << e1, cont >>
  IN installed(install_node_group(e, a))

handle_fsm_snapshot(e, gcs) ==
  LET emptied(e1) ==
        << SET_X_FSM_STATE(handle_x_snapshot(e1, set_log_end(e1, gcs)),
                           "xcom_fsm_run_enter"), 1 >>
  IN emptied(empty_prop_input_queue(e))

handle_fsm_snapshot_wait(e) ==
  << SET_X_FSM_STATE(start_x_timer(empty_prop_input_queue(e)),
                     "xcom_fsm_snapshot_wait_enter"), 1 >>

\* task_terminate_all ends every task, the timer and the completion task
\* among them
handle_fsm_exit(e) ==
  LET buried(e1) ==
        [free_site_defs(e1) EXCEPT
           !.fsm.tasks = {}, !.fsm.x_timer = 0, !.fsm.x_fsm_completion = 0,
           !.fsm.forced_config = NoSite, !.fsm.wait_forced_config = 0,
           !.fsm.xcom_shutdown = 1, !.fsm.start_config = null_synode]
  IN buried(bury_site(e, get_group_id(get_site_def(e.sd))))

xcom_fsm_start(e, action, fsmargs) ==
  LET done(r) == << [r[1] EXCEPT !.fsm.need_init_cache = 1], r[2] >>
  IN done(CASE action = "x_fsm_init" ->
                 << [e EXCEPT !.fsm.xcom_shutdown = 0, !.fsm.oom_abort = 0,
                              !.fsm.no_cache_abort = 0,
                              !.pm = IF e.fsm.need_init_cache # 0
                                     THEN << >> ELSE @], 0 >>
            [] action = "x_fsm_net_boot" ->
                 handle_fsm_net_boot(e, fsmargs, 0)
            [] action = "x_fsm_snapshot" -> handle_fsm_snapshot(e, fsmargs)
            [] action = "x_fsm_snapshot_wait" -> handle_fsm_snapshot_wait(e)
            [] action = "x_fsm_exit" -> << handle_fsm_exit(e), 0 >>
            [] OTHER -> << e, 0 >>)

xcom_fsm_snapshot_wait_enter(e) ==
  << [e EXCEPT !.fsm.log_start_max = null_synode,
               !.fsm.log_end_max = null_synode,
               !.fsm.state = "xcom_fsm_snapshot_wait"], 0 >>

handle_local_snapshot(e, gcs) ==
  LET noted(e1) ==
        << SET_X_FSM_STATE(
             send_need_boot(note_snapshot(e1, get_nodeno(
                                                get_site_def(e1.sd)))),
             "xcom_fsm_recover_wait_enter"), 1 >>
  IN noted(update_best_snapshot(e, gcs))

handle_snapshot(e, gcs) ==
  LET noted(e1) ==
        << SET_X_FSM_STATE(
             send_need_boot(note_snapshot(e1, get_nodeno(
                                                get_site_def(e1.sd)))),
             "xcom_fsm_recover_wait_enter"), 1 >>
  IN noted(update_best_snapshot(e, set_log_end(e, gcs)))

\* xcom_fsm_snapshot_wait giving up the wait on x_fsm_terminate too
xcom_fsm_snapshot_wait_terminating(e, action, fsmargs) ==
  CASE action = "x_fsm_local_snapshot" -> handle_local_snapshot(e, fsmargs)
    [] action = "x_fsm_snapshot" -> handle_snapshot(e, fsmargs)
    [] action \in {"x_fsm_timeout", "x_fsm_terminate"} ->
         << SET_X_FSM_STATE(e, "xcom_fsm_start_enter"), 1 >>
    [] OTHER -> << e, 0 >>

xcom_fsm_snapshot_wait(e, action, fsmargs) ==
  CASE action = "x_fsm_local_snapshot" -> handle_local_snapshot(e, fsmargs)
    [] action = "x_fsm_snapshot" -> handle_snapshot(e, fsmargs)
    [] action = "x_fsm_timeout" ->
         << SET_X_FSM_STATE(e, "xcom_fsm_start_enter"), 1 >>
    [] OTHER -> << e, 0 >>

xcom_fsm_recover_wait_enter(e) ==
  << SET_X_FSM_STATE(IF got_all_snapshots(e) THEN send_x_fsm_complete(e)
                     ELSE e, "xcom_fsm_recover_wait"), 0 >>

\* xcom_fsm_recover_wait leaving for run_enter on x_fsm_snapshot too
xcom_fsm_recover_wait_snapshot_ends(e, action, fsmargs) ==
  IF action \in {"x_fsm_snapshot", "x_fsm_timeout", "x_fsm_complete"}
  THEN << SET_X_FSM_STATE(e, "xcom_fsm_run_enter"), 1 >>
  ELSE << IF got_all_snapshots(e) THEN send_x_fsm_complete(e) ELSE e, 0 >>

xcom_fsm_recover_wait(e, action, fsmargs) ==
  LET wait(e1) ==
        << IF got_all_snapshots(e1) THEN send_x_fsm_complete(e1) ELSE e1,
           0 >>
  IN IF action = "x_fsm_snapshot"
     THEN wait(update_best_snapshot(e, set_log_end(e, fsmargs)))
     ELSE IF action \in {"x_fsm_timeout", "x_fsm_complete"}
          THEN << SET_X_FSM_STATE(e, "xcom_fsm_run_enter"), 1 >>
          ELSE wait(e)

\* the site history holds a site when xcom_fsm_run_enter is called
xcom_fsm_run_enter(e) ==
  LET run(e1) ==
        << [set_proposer_startpoint([stop_x_timer(e1) EXCEPT !.boot = 1])
              EXCEPT !.prop = InitProposer,
                     !.xc = [InitContext EXCEPT !.state = "task_new"],
                     !.fsm.tasks = @ \cup RunTasks,
                     !.fsm.state = "xcom_fsm_run"], 1 >>
  IN run(IF find_site_def(e.sd, e.ex).null
         THEN set_executed_msg(
                [e EXCEPT !.fsm.start_config = get_site_def(e.sd).boot_key],
                get_site_def(e.sd).start)
         ELSE [e EXCEPT !.fsm.start_config = get_site_def(e.sd).boot_key])

\* handle_fsm_terminate without the reset of client_boot_done
handle_fsm_terminate_booted(e) ==
  << [free_site_defs(
        init_xcom_base(
          [e EXCEPT !.fsm.oom_abort = 0, !.fsm.no_cache_abort = 0,
                    !.prop = InitProposer,
                    !.xc = [InitContext EXCEPT !.state = "null"],
                    !.fsm.tasks = @ \ RunTasks])) EXCEPT
        !.boot = 1, !.fsm.forced_config = NoSite,
        !.fsm.wait_forced_config = 0,
        !.fsm.state = "xcom_fsm_start_enter"], 1 >>

handle_fsm_terminate(e) ==
  << [free_site_defs(
        init_xcom_base(
          [e EXCEPT !.boot = 0, !.fsm.oom_abort = 0,
                    !.fsm.no_cache_abort = 0, !.prop = InitProposer,
                    !.xc = [InitContext EXCEPT !.state = "null"],
                    !.fsm.tasks = @ \ RunTasks])) EXCEPT
        !.fsm.forced_config = NoSite, !.fsm.wait_forced_config = 0,
        !.fsm.state = "xcom_fsm_start_enter"], 1 >>

handle_fsm_force_config(e, a) ==
  [start_force_config(
     e, [create_site_def_with_start(e, a, e.ex) EXCEPT !.boot_key = e.ex],
     1) EXCEPT !.fsm.wait_forced_config = 1]

xcom_fsm_run(e, action, fsmargs) ==
  CASE action = "x_fsm_terminate" -> handle_fsm_terminate(e)
    [] action = "x_fsm_force_config" ->
         << handle_fsm_force_config(e, fsmargs), 0 >>
    [] OTHER -> << e, 0 >>

\* the state function the FSM is in, called with the action
state_fp(ctxt, action, fsmargs) ==
  CASE ctxt.fsm.state = "xcom_fsm_init" -> xcom_fsm_init(ctxt)
    [] ctxt.fsm.state = "xcom_fsm_start_enter" -> xcom_fsm_start_enter(ctxt)
    [] ctxt.fsm.state = "xcom_fsm_start" ->
         xcom_fsm_start(ctxt, action, fsmargs)
    [] ctxt.fsm.state = "xcom_fsm_snapshot_wait_enter" ->
         xcom_fsm_snapshot_wait_enter(ctxt)
    [] ctxt.fsm.state = "xcom_fsm_snapshot_wait" ->
         xcom_fsm_snapshot_wait(ctxt, action, fsmargs)
    [] ctxt.fsm.state = "xcom_fsm_recover_wait_enter" ->
         xcom_fsm_recover_wait_enter(ctxt)
    [] ctxt.fsm.state = "xcom_fsm_recover_wait" ->
         xcom_fsm_recover_wait(ctxt, action, fsmargs)
    [] ctxt.fsm.state = "xcom_fsm_run_enter" -> xcom_fsm_run_enter(ctxt)
    [] ctxt.fsm.state = "xcom_fsm_run" -> xcom_fsm_run(ctxt, action, fsmargs)

\* the trampoline: the state functions are called until one returns 0
RECURSIVE xcom_fsm_impl(_, _, _)

crank(r, action, fsmargs) ==
  IF r[2] # 0 THEN xcom_fsm_impl(r[1], action, fsmargs) ELSE r[1]

xcom_fsm_impl(e, action, fsmargs) ==
  crank(state_fp(e, action, fsmargs), action, fsmargs)

\* XCOM_FSM for each of the actions in turn, an action being
\* << the action, its argument >>
RECURSIVE XCOM_FSM(_, _)
XCOM_FSM(e, actions) ==
  IF actions = << >> THEN e
  ELSE XCOM_FSM(xcom_fsm_impl(e, Head(actions)[1], Head(actions)[2]),
                Tail(actions))

terminate_and_exit_actions == << << "x_fsm_terminate", 0 >>,
                                 << "x_fsm_exit", 0 >> >>

terminate_and_exit(e) == XCOM_FSM(e, terminate_and_exit_actions)

handle_client_msg(e, p) ==
  IF p.a.c_t = "none" THEN e
  ELSE [e EXCEPT !.queue = Append(e.queue, p.a)]

force_machine(e, p) ==
  IF p.force_delivery # 0
  THEN PutM(e, [Machine(e, p.synode) EXCEPT !.force_delivery = 1])
  ELSE PutM(e, Machine(e, p.synode))

SEND_REPLY(e, cli_err) == [e EXCEPT !.fsm.cli_err = Append(@, cli_err)]

node_exists(node, nodes) == \E i \in 1 .. Len(nodes) : nodes[i] = node

\* called for every type of command: set_event_horizon_type has no node
\* list, and what is read in its place is e.stray_nodes, TRUE when the
\* address of the node is found there
add_node_adding_own_address(e, a) ==
  IF a.c_t = "set_event_horizon_type" THEN e.stray_nodes
  ELSE node_exists(e.self, a.nodes)

\* every node is taken to support the event horizon and the addresses of
\* the group, and the detector to have no old incarnation
allow_add_node(e, a) ==
  \A i \in 1 .. Len(a.nodes) :
    /\ ~node_exists(a.nodes[i], get_site_def(e.sd).nodes)
    /\ ~node_exists(a.nodes[i], find_site_def(e.sd, e.ex).nodes)

allow_remove_node(e, a) ==
  \A i \in 1 .. Len(a.nodes) :
    node_exists(a.nodes[i], get_site_def(e.sd).nodes)

\* e.suspected are the node numbers may_be_dead holds for
are_there_dead_nodes_in_new_config(e, a) ==
  \E i \in 1 .. Len(a.nodes) :
    LET node == xcom_find_node_index(get_site_def(e.sd).nodes, a.nodes[i])
    IN /\ node # get_nodeno(get_site_def(e.sd))
       /\ node = VOID_NODE_NO \/ node \in e.suspected

can_execute_cfgchange(e, p) ==
  IF e.ex.msgno <= 2
  THEN IF add_node_adding_own_address(e, p.a) THEN "REQUEST_FAIL"
       ELSE "REQUEST_RETRY"
  ELSE IF p.a.group_id # 0 /\ p.a.group_id # get_group_id(
                                                find_site_def(e.sd, e.ex))
  THEN "REQUEST_FAIL"
  ELSE IF p.a.c_t = "add_node_type" /\ ~allow_add_node(e, p.a)
  THEN "REQUEST_FAIL"
  ELSE IF p.a.c_t = "remove_node_type" /\ ~allow_remove_node(e, p.a)
  THEN "REQUEST_FAIL"
  ELSE IF /\ p.a.c_t = "set_event_horizon_type"
          /\ unsafe_event_horizon_reconfiguration(p.a)
  THEN "REQUEST_FAIL"
  ELSE IF /\ p.a.c_t = "force_config_type"
          /\ are_there_dead_nodes_in_new_config(e, p.a)
  THEN "REQUEST_FAIL"
  ELSE "REQUEST_OK"

\* the client_msg case of dispatch_op, in the three parts its calls of
\* XCOM_FSM divide it into: what is done before the FSM is called
client_msg_before_fsm(e, p) ==
  CASE p.a.c_t \in {"exit_type", "reset_type"} ->
         bury_site(e, get_group_id(get_site_def(e.sd)))
    [] p.a.c_t = "x_terminate_and_exit" -> SEND_REPLY(e, "REQUEST_OK")
    [] p.a.c_t \in {"add_node_type", "remove_node_type",
                    "force_config_type", "set_event_horizon_type"} ->
         SEND_REPLY(e, can_execute_cfgchange(e, p))
    [] OTHER -> e

\* the actions the FSM is called with
client_msg_fsm_actions(e, p) ==
  CASE p.a.c_t \in {"exit_type", "x_terminate_and_exit"} ->
         terminate_and_exit_actions
    [] p.a.c_t \in {"reset_type", "remove_reset_type"} ->
         << << "x_fsm_terminate", 0 >> >>
    [] p.a.c_t = "force_config_type" ->
         IF can_execute_cfgchange(e, p) = "REQUEST_OK"
         THEN << << "x_fsm_force_config", p.a >> >> ELSE << >>
    [] p.a.c_t = "unified_boot_type" -> << << "x_fsm_net_boot", p.a >> >>
    [] OTHER -> << >>

\* what is done after it: e is the engine dispatch_op was called with and
\* e1 the engine the FSM has left
client_msg_after_fsm(e, e1, p) ==
  CASE p.a.c_t \in {"exit_type", "reset_type", "remove_reset_type",
                    "x_terminate_and_exit"} -> e1
    [] p.a.c_t \in {"add_node_type", "remove_node_type",
                    "force_config_type", "set_event_horizon_type"} ->
         IF can_execute_cfgchange(e, p) = "REQUEST_OK"
         THEN handle_client_msg(e1, p) ELSE e1
    [] OTHER -> handle_client_msg(e1, p)

get_highest_boot_key(gcs) == config_max_boot_key(gcs)

\* ALWAYS_HANDLE_CONSENSUS is not set in this build
ALWAYS_HANDLE_CONSENSUS == 0

\* the cases of dispatch_op that are about the machine of a synode
\* dispatch_op taking no synode to be in front
dispatch_consensus_op_near(e, site, p) ==
  LET no_cache(e1) == [e1 EXCEPT !.fsm.no_cache_abort = 1]
      multi_ack(e1, new_synode) ==
        IF p.op # "multi_ack_accept_op" THEN e1
        ELSE IF ~cache_available(e1, new_synode) THEN no_cache(e1)
        ELSE LET skipped(e2) ==
                   PutM(e2, handle_skip(
                              Machine(e2, new_synode),
                              [prepare([pax_msg_new(new_synode, site) EXCEPT
                                          !.from = p.from], "skip_op") EXCEPT
                                 !.msg_type = "no_op"]))
             IN skipped(force_machine(e1, [p EXCEPT !.synode = new_synode]))
      cases(in_front, avail, ef, pm) ==
        CASE p.op = "read_op" ->
               IF avail THEN handle_read(ef, site, pm, p) ELSE no_cache(e)
          [] p.op = "prepare_op" ->
               IF ~avail THEN no_cache(e)
               ELSE IF ALWAYS_HANDLE_CONSENSUS # 0 \/ e.boot # 0
                    THEN handle_prepare(ef, site, pm, p) ELSE ef
          [] p.op \in {"ack_prepare_op", "ack_prepare_empty_op"} ->
               IF in_front \/ ~is_cached(e.pm, p.synode) THEN e
               ELSE IF pm.proposer.msg.op = "null" THEN ef
               ELSE handle_ack_prepare(ef, site, pm, p)
          [] p.op = "accept_op" ->
               IF ~avail THEN no_cache(e)
               ELSE IF ALWAYS_HANDLE_CONSENSUS # 0 \/ e.boot # 0
                    THEN handle_accept(ef, site, pm, p) ELSE ef
          [] p.op \in {"ack_accept_op", "multi_ack_accept_op"} ->
               IF in_front \/ ~is_cached(e.pm, p.synode) THEN e
               ELSE IF pm.proposer.msg.op = "null" THEN ef
               ELSE multi_ack(handle_ack_accept(ef, site, pm, p),
                              Synode(p.synode.msgno, p.from))
          [] p.op = "recover_learn_op" ->
               IF ~avail THEN no_cache(e)
               ELSE PutM(update_max_synode(ef, p),
                         handle_learn(pm, [p EXCEPT !.op = "learn_op"]))
          [] p.op = "learn_op"
               \/ (p.op = "tiny_learn_op" /\ p.msg_type = "no_op") ->
               IF ~avail THEN no_cache(e)
               ELSE PutM(update_max_synode(ef, p), handle_learn(pm, p))
          [] p.op = "tiny_learn_op" /\ p.msg_type # "no_op" ->
               IF ~avail THEN no_cache(e)
               ELSE handle_tiny_learn(ef, site, pm, p)
          [] p.op = "skip_op" ->
               IF ~avail THEN no_cache(e)
               ELSE PutM(ef, handle_skip(pm, p))
          [] OTHER -> e
      cached(ef) ==
        cases(FALSE,
              cache_available(e, p.synode), ef, Machine(ef, p.synode))
  IN cached(force_machine(e, p))

dispatch_consensus_op(e, site, p) ==
  LET no_cache(e1) == [e1 EXCEPT !.fsm.no_cache_abort = 1]
      multi_ack(e1, new_synode) ==
        IF p.op # "multi_ack_accept_op" THEN e1
        ELSE IF ~cache_available(e1, new_synode) THEN no_cache(e1)
        ELSE LET skipped(e2) ==
                   PutM(e2, handle_skip(
                              Machine(e2, new_synode),
                              [prepare([pax_msg_new(new_synode, site) EXCEPT
                                          !.from = p.from], "skip_op") EXCEPT
                                 !.msg_type = "no_op"]))
             IN skipped(force_machine(e1, [p EXCEPT !.synode = new_synode]))
      cases(in_front, avail, ef, pm) ==
        CASE p.op = "read_op" ->
               IF avail THEN handle_read(ef, site, pm, p) ELSE no_cache(e)
          [] p.op = "prepare_op" ->
               IF ~avail THEN no_cache(e)
               ELSE IF ALWAYS_HANDLE_CONSENSUS # 0 \/ e.boot # 0
                    THEN handle_prepare(ef, site, pm, p) ELSE ef
          [] p.op \in {"ack_prepare_op", "ack_prepare_empty_op"} ->
               IF in_front \/ ~is_cached(e.pm, p.synode) THEN e
               ELSE IF pm.proposer.msg.op = "null" THEN ef
               ELSE handle_ack_prepare(ef, site, pm, p)
          [] p.op = "accept_op" ->
               IF ~avail THEN no_cache(e)
               ELSE IF ALWAYS_HANDLE_CONSENSUS # 0 \/ e.boot # 0
                    THEN handle_accept(ef, site, pm, p) ELSE ef
          [] p.op \in {"ack_accept_op", "multi_ack_accept_op"} ->
               IF in_front \/ ~is_cached(e.pm, p.synode) THEN e
               ELSE IF pm.proposer.msg.op = "null" THEN ef
               ELSE multi_ack(handle_ack_accept(ef, site, pm, p),
                              Synode(p.synode.msgno, p.from))
          [] p.op = "recover_learn_op" ->
               IF ~avail THEN no_cache(e)
               ELSE PutM(update_max_synode(ef, p),
                         handle_learn(pm, [p EXCEPT !.op = "learn_op"]))
          [] p.op = "learn_op"
               \/ (p.op = "tiny_learn_op" /\ p.msg_type = "no_op") ->
               IF ~avail THEN no_cache(e)
               ELSE PutM(update_max_synode(ef, p), handle_learn(pm, p))
          [] p.op = "tiny_learn_op" /\ p.msg_type # "no_op" ->
               IF ~avail THEN no_cache(e)
               ELSE handle_tiny_learn(ef, site, pm, p)
          [] p.op = "skip_op" ->
               IF ~avail THEN no_cache(e)
               ELSE PutM(ef, handle_skip(pm, p))
          [] OTHER -> e
      cached(ef) ==
        cases(IF p.force_delivery # 0 THEN FALSE
              ELSE too_far_at(e.sd, e.ex, p.synode),
              cache_available(e, p.synode), ef, Machine(ef, p.synode))
  IN cached(force_machine(e, p))

\* dispatch_op, in the parts its calls of XCOM_FSM divide it into: what a
\* case does before the FSM is called
dispatch_before_fsm(e, site, p) ==
  CASE p.op = "client_msg" -> client_msg_before_fsm(e, p)
    [] p.op = "gcs_snapshot_op" ->
         IF /\ ~synode_eq(e.fsm.start_config,
                          get_highest_boot_key(p.gcs_snap))
            /\ ~is_dead_site(e, p.group_id)
         THEN note_snapshot(update_max_synode(e, p), p.from)
         ELSE e
    [] p.op = "die_op" -> e
    [] OTHER -> dispatch_consensus_op(e, site, p)

\* the actions the case calls the FSM with
dispatch_fsm_actions(e, p) ==
  CASE p.op = "client_msg" -> client_msg_fsm_actions(e, p)
    [] p.op = "gcs_snapshot_op" ->
         IF /\ ~synode_eq(e.fsm.start_config,
                          get_highest_boot_key(p.gcs_snap))
            /\ ~is_dead_site(e, p.group_id)
         THEN << << "x_fsm_snapshot", p.gcs_snap >> >>
         ELSE << >>
    [] p.op = "die_op" ->
         IF ~synode_lt(p.synode, e.ex) THEN terminate_and_exit_actions
         ELSE << >>
    [] OTHER -> << >>

\* what the case does after the FSM has returned
dispatch_after_fsm(e, e1, p) ==
  IF p.op = "client_msg" THEN client_msg_after_fsm(e, e1, p) ELSE e1

\* the end of dispatch_op: the node terminates when no machine or no
\* memory could be had
dispatch_abort(e) ==
  IF e.fsm.oom_abort # 0 \/ e.fsm.no_cache_abort # 0
  THEN terminate_and_exit(e) ELSE e

\* dispatch_op: the operation of message p is carried out
dispatch_op(e, site, p) ==
  dispatch_abort(
    dispatch_after_fsm(
      e, XCOM_FSM(dispatch_before_fsm(e, site, p),
                  dispatch_fsm_actions(e, p)), p))

\* match_my_msg taking every learned value for the message of the client
match_my_msg_any(learned, client) ==
  learned.a.c_t \in {"none", learned.a.c_t} /\ client.c_t \in {"none", client.c_t}

(* ------------------------------------------------------------------ *)
(* proposer_task                                                      *)
(* ------------------------------------------------------------------ *)
match_my_msg(learned, client) ==
  IF learned.a.c_t # "none" /\ client.c_t # "none"
  THEN learned.a.id = client.id
  ELSE learned.a.c_t = "none" /\ client.c_t = "none"

\* the loop that looks for a free slot from msgno on:
\* << the slot, TRUE when the task waits because the next is too far >>
(* ------------------------------------------------------------------ *)
(* proposer_task: a message is taken from the input queue, payloads    *)
(* are batched into it and the batch is given its log sequence number  *)
(* ------------------------------------------------------------------ *)
AUTOBATCH == 1
\* the size and the number of payloads a batch may have
MAX_BATCH_SIZE == 4
MAX_BATCH_APP_DATA == 3

is_view(ct) == ct = "view_msg"

app_data_size(a) == a.size

\* the payloads of the list whose head is a, a first
app_list(a) ==
  IF a.c_t = "none" THEN << >> ELSE << [a EXCEPT !.next = << >>] >> \o a.next

\* atmp->next = a: atmp is the head of the list and a follows it
app_link(atmp, a) == [atmp EXCEPT !.next = app_list(a)]

\* the batching loop: a is the list of the message of the task, size and
\* nr what the list holds: << the list, the queue >>
RECURSIVE batch_app_data(_, _, _, _)
batch_app_data(queue, a, size, nr) ==
  IF /\ AUTOBATCH # 0
     /\ size <= MAX_BATCH_SIZE
     /\ nr <= MAX_BATCH_APP_DATA
     /\ queue # << >>
  THEN IF \/ is_config(Head(queue).c_t)
          \/ is_view(Head(queue).c_t)
          \/ nr + 1 > MAX_BATCH_APP_DATA
          \/ size + app_data_size(Head(queue)) > MAX_BATCH_SIZE
       THEN << a, queue >>
       ELSE batch_app_data(Tail(queue), app_link(Head(queue), a),
                           size + app_data_size(Head(queue)), nr + 1)
  ELSE << a, queue >>

initialize_lsn(e, n) == [e EXCEPT !.fsm.lsn = n]

\* assign_lsn: the number it returns is the lsn of the engine it gives
assign_lsn(e) ==
  [e EXCEPT !.fsm.lsn =
     (IF e.fsm.lsn = 0 THEN e.mx.msgno ELSE e.fsm.lsn) + 1]

\* every payload of the list of a is given log sequence number n
set_lsn(a, n) ==
  [a EXCEPT !.lsn = n,
            !.next = [i \in 1 .. Len(a.next) |->
                        [a.next[i] EXCEPT !.lsn = n]]]

\* what the task has taken: << the list of its message, the queue >>
proposer_batch(queue) ==
  IF ~is_config(Head(queue).c_t) /\ ~is_view(Head(queue).c_t)
  THEN batch_app_data(Tail(queue), Head(queue),
                      app_data_size(Head(queue)), 1)
  ELSE << Head(queue), Tail(queue) >>

\* from the message the task gets from the queue to retry_new
proposer_get(e) ==
  [assign_lsn(e) EXCEPT
     !.queue = proposer_batch(e.queue)[2],
     !.prop.client_msg =
        set_lsn(proposer_batch(e.queue)[1], assign_lsn(e).fsm.lsn),
     !.lsns =
        Append(@, set_lsn(proposer_batch(e.queue)[1],
                          assign_lsn(e).fsm.lsn))]

RECURSIVE find_slot(_, _)
find_slot(e, msgno) ==
  IF is_busy(e.pm, msgno)
  THEN IF too_far_at(e.sd, e.ex, incr_msgno(e.sd, msgno))
       THEN << msgno, TRUE >>
       ELSE find_slot(e, incr_msgno(e.sd, msgno))
  ELSE << msgno, FALSE >>

\* from the call of wait_for_cache to the wait on the machine
proposer_push(e) ==
  LET msgno == e.prop.msgno
      site == find_site_def(e.sd, msgno)
      client == PaxMsg(VOID_NODE_NO, VOID_NODE_NO, "client_msg", msgno,
                       Ballot(0, 0), Ballot(0, 0), "normal",
                       [e.prop.client_msg EXCEPT !.app_key = msgno], 0)
      push(e1, p) ==
        IF threephase # 0 \/ p.force_delivery # 0
           \/ p.acceptor.promise.cnt # 0
        THEN push_msg_3p(e1, site, p, pax_msg_new(msgno, site), msgno,
                         "normal")
        ELSE push_msg_2p(e1, site, p)
  IN IF ~cache_available(e, msgno)
     THEN [e EXCEPT !.prop.pc = "wait_for_cache"]
     ELSE push([e EXCEPT !.prop.pc = "wait_rv"],
               [Machine(e, msgno) EXCEPT !.lock = 1,
                                         !.proposer.msg = client])

\* from the slot loop, entered at slot msgno, onwards
proposer_slot(e, msgno) ==
  LET slot(r, site) ==
        IF r[2] THEN [e EXCEPT !.prop.pc = "too_far", !.prop.msgno = r[1]]
        ELSE IF site.null \/ get_nodeno(site) = VOID_NODE_NO
             THEN [e EXCEPT !.prop = [pc |-> "idle", client_msg |-> NoApp,
                                      msgno |-> r[1]]]
             ELSE proposer_push([e EXCEPT !.prop.msgno = r[1], !.cm = r[1]])
      found(r) == slot(r, find_site_def(e.sd, r[1]))
  IN found(find_slot(e, msgno))

\* retry_new
proposer_retry_new(e) == proposer_slot(e, e.cm)

\* the wait on the machine has ended
proposer_wakeup(e, timed_out) ==
  LET msgno == e.prop.msgno
      next(e1, p) ==
        IF match_my_msg(p.learner.msg, e.prop.client_msg)
        THEN [e1 EXCEPT !.prop = [pc |-> "idle", client_msg |-> NoApp,
                                  msgno |-> msgno]]
        ELSE proposer_retry_new(e1)
      woken(p, site) ==
        IF ~finished(p)
        THEN IF timed_out
             THEN push_msg_3p(e, site, p, pax_msg_new(msgno, site), msgno,
                              "normal")
             ELSE e
        ELSE next(PutM(e, [p EXCEPT !.lock = 0]), p)
  IN woken(Machine(e, msgno), find_site_def(e.sd, msgno))

(* ------------------------------------------------------------------ *)
(* get_xcom_message: the executor looks for the value of executed_msg  *)
(* ------------------------------------------------------------------ *)
FIND_MAX == 1

propose_noop(e, find, p) ==
  LET push(site, msg) ==
        push_msg_3p(e, site, [p EXCEPT !.proposer.msg = msg], msg, find,
                    "no_op")
      at(site) == push(site, create_noop(pax_msg_new(find, site)))
  IN at(find_site_def(e.sd, find))

\* ok_to_propose without the test of the lock of the proposer task
ok_to_propose_busy(p) == ~finished(p)

\* the delay of get_xcom_message has passed, so the machine has not been
\* modified recently
ok_to_propose(p) == ~finished(p) /\ p.lock = 0

RECURSIVE read_missing_values_from(_, _, _, _)
read_missing_values_from(e, find, i, n) ==
  IF ~synode_gt(find, e.mx) /\ i < n /\ ~too_far_at(e.sd, e.ex, find)
  THEN LET read(p, e1) ==
             IF ~finished(p) /\ p.lock = 0 THEN send_read(e1, find) ELSE e1
           cached(p) == read(p, PutM(e, p))
       IN read_missing_values_from(cached(Machine(e, find)),
                                   incr_synode(e.sd, find), i + 1, n)
  ELSE e

read_missing_values(e, n) ==
  IF synode_gt(e.ex, e.mx) \/ synode_eq(e.ex, null_synode) THEN e
  ELSE read_missing_values_from(e, e.ex, 0, n)

RECURSIVE propose_missing_values_from(_, _, _, _)
propose_missing_values_from(e, find, i, n) ==
  IF ~synode_gt(find, e.mx) /\ i < n /\ ~too_far_at(e.sd, e.ex, find)
  THEN LET propose(p, e1) ==
             IF get_nodeno(find_site_def(e.sd, find)) = VOID_NODE_NO THEN e1
             ELSE propose_missing_values_from(
                    IF ok_to_propose(p) THEN propose_noop(e1, find, p)
                    ELSE e1,
                    incr_synode(e.sd, find), i + 1, n)
           cached(p) == propose(p, PutM(e, p))
       IN cached(IF e.fsm.wait_forced_config # 0
                 THEN force_pax_machine(Machine(e, find), 1)
                 ELSE Machine(e, find))
  ELSE e

propose_missing_values(e, n) ==
  IF synode_gt(e.ex, e.mx) \/ synode_eq(e.ex, null_synode) THEN e
  ELSE propose_missing_values_from(e, e.ex, 0, n)

\* wait counts the earlier turns of the loop of get_xcom_message and
\* iamthegreatest is the answer of the failure detector
find_value(e, site, wait, n, iamthegreatest) ==
  IF \/ get_nodeno(site) = VOID_NODE_NO
     \/ wait \in {0, 1}
     \/ (wait = 2 /\ ~iamthegreatest)
  THEN read_missing_values(e, n)
  ELSE propose_missing_values(e, n)

\* one turn of the loop of get_xcom_message while the machine is not
\* finished
get_xcom_message(e, msgno, wait, n, iamthegreatest) ==
  LET find(e1, site) ==
        IF get_maxnodes(site) = 0
        THEN PutM(e1, handle_skip(Machine(e1, msgno),
                                  pax_msg_new(msgno, site)))
        ELSE find_value(e1, site, wait, n, iamthegreatest)
  IN find(PutM(e, Machine(e, msgno)), find_site_def(e.sd, msgno))

(* ------------------------------------------------------------------ *)
(* sweeper_task                                                       *)
(* ------------------------------------------------------------------ *)
RECURSIVE sweep(_)
sweep(e) ==
  IF synode_lt(e.find, e.mx) /\ ~too_far_at(e.sd, e.ex, e.find)
  THEN LET next(e1, f0) == sweep([e1 EXCEPT !.find = incr_msgno(e1.sd, f0)])
           skip(e0, f0, pm) ==
             IF ~cache_available(e0, f0) THEN e0
             ELSE IF /\ pm.force_delivery = 0 /\ pm.lock = 0
                     /\ pm.acceptor.promise.cnt = 0
                     /\ pm.acceptor.msg.op = "null" /\ ~finished(pm)
                  THEN skip_msg(PutM(e0, [pm EXCEPT !.op = "skip_op"]),
                                pax_msg_new(f0, find_site_def(e0.sd, f0)))
                  ELSE PutM(e0, pm)
           at(e0, f0) ==
             IF f0.node = VOID_NODE_NO THEN e0
             ELSE next(skip(e0, f0, Machine(e0, f0)), f0)
           from(f0) == at([e EXCEPT !.find = f0], f0)
       IN from(IF e.find.node = VOID_NODE_NO /\ synode_gt(e.ex, e.find)
               THEN get_sweep_start(e.sd, e.ex) ELSE e.find)
  ELSE e

(* ------------------------------------------------------------------ *)
(* Consensus specification: three nodes that have executed every       *)
(* synode up to MAX_PROPOSER_ONLINE and have an empty cache            *)
(* ------------------------------------------------------------------ *)
MaxClients == 1
MaxLoss == 1
MaxBallot == 1
MaxFills == 1
MaxReads == 1
MaxClientNode == 1
MaxLocalInFlight == 0
MaxInFlight == 0

PaxosNodes == << 0, 1, 2 >>

\* the nodes whose all_nodes_valid has been set when the rounds start
ValidNodes == {1}

PaxosSite(n) ==
  Site(InitStart, InitStart, PaxosNodes, EVENT_HORIZON_MIN,
       xcom_find_node_index(PaxosNodes, n))

PaxosExecuted == Synode(MAX_PROPOSER_ONLINE + 1, 0)

\* valid: the nodes whose all_nodes_valid has been set from outside;
\* filled: the number of times a cache has run out of machines so far;
\* busy: the nodes whose clients have nothing more to send
InitConsensus(valid, filled, busy) ==
  /\ site_defs = [n \in Nodes |-> << PaxosSite(n) >>]
  /\ executed_msg = [n \in Nodes |-> PaxosExecuted]
  /\ delivered_msg = [n \in Nodes |-> PaxosExecuted]
  /\ max_synode = [n \in Nodes |-> Synode(MAX_PROPOSER_ONLINE, 2)]
  /\ current_message =
       [n \in Nodes |-> first_free_synode(<< PaxosSite(n) >>, PaxosExecuted)]
  /\ xc = [n \in Nodes |-> InitContext]
  /\ delay_fifo = [n \in Nodes |-> << >>]
  /\ pax = [n \in Nodes |-> << >>]
  /\ app_log = [n \in Nodes |-> << >>]
  /\ installs = [n \in Nodes |-> << >>]
  /\ lsn_log = [n \in Nodes |-> << >>]
  /\ net = NoTraffic
  /\ prop_input_queue = [n \in Nodes |-> << >>]
  /\ prop = [n \in Nodes |-> InitProposer]
  /\ participate_paxos = [n \in Nodes |-> {}]
  /\ all_nodes_valid = [n \in Nodes |-> IF n \in valid THEN 1 ELSE 0]
  /\ client_boot_done = [n \in Nodes |-> 1]
  /\ cache_full = [n \in Nodes |-> FALSE]
  /\ sweep_find =
       [n \in Nodes |-> get_sweep_start(<< PaxosSite(n) >>, PaxosExecuted)]
  /\ clients = [n \in Nodes |-> IF n \in busy THEN MaxClients ELSE 0]
  /\ lifecycle = [n \in Nodes |-> RunLifecycle(PaxosSite(n))]
  /\ lost = 0
  /\ fills = filled

InitPaxos == InitConsensus(ValidNodes, 0, {})

\* the connection of node n to itself, served by its local sender task
Local(n) == << n, n, "req" >>

\* the local sender task hands the messages a node has sent to itself to
\* dispatch_op, in their order, until at most MaxLocalInFlight of them wait:
\* << the engine, the messages still waiting >>
RECURSIVE local_sender_task(_, _)
local_sender_task(e, waiting) ==
  IF Len(waiting) > MaxLocalInFlight
  THEN LET next(e1) ==
             local_sender_task(e1, Tail(waiting) \o e1.out[Local(e.self)])
       IN next(dispatch_op([e EXCEPT !.out[Local(e.self)] = << >>],
                           find_site_def(e.sd, Head(waiting).synode),
                           Head(waiting)))
  ELSE << e, waiting >>

\* the step of node e.self ends: its state is stored and what it has sent
\* is in flight, the heads of the connections in consumed being taken
Step(e, consumed) ==
  \E e0 \in {e} :
    \E rest \in {[c \in Chans |-> IF c \in consumed THEN Tail(net[c])
                                  ELSE net[c]]} :
      \E r \in {local_sender_task(e0, rest[Local(e0.self)]
                                         \o e0.out[Local(e0.self)])} :
        /\ Commit(r[1])
        /\ net' = [c \in Chans |->
                     IF c = Local(e0.self) THEN r[2]
                     ELSE rest[c] \o r[1].out[c]]
        /\ UNCHANGED lost

harmless(m) ==
  \/ m.synode.msgno = 0
  \/ m.op \in {"i_am_alive_op", "are_you_alive_op", "need_boot_op",
               "gcs_snapshot_op", "learn_op", "recover_learn_op",
               "tiny_learn_op", "die_op"}

should_poll_cache(op) ==
  op \notin {"die_op", "gcs_snapshot_op", "initial_op", "client_msg"}

\* acceptor_learner_task has read message m
acceptor_learner_task(e, m) ==
  LET site == find_site_def(e.sd, m.synode)
      behind == get_maxnodes(site) > 0 /\ m.synode.msgno < e.dl.msgno
  IN IF /\ m.op \in {"read_op", "prepare_op", "accept_op"}
        /\ ~site.null
        /\ ~node_lt(m.synode.node, Len(site.nodes))
     THEN send_reply(e, set_learn_type(create_noop(CREATE_REPLY(site, m))))
     ELSE IF harmless(m) \/ is_cached(e.pm, m.synode) \/ ~behind
          THEN dispatch_op(e, site, m)
          ELSE e

\* the timers and the clients of this model are slow: a task starts a new
\* round of messages when no connection holds more than MaxInFlight and
\* every cache has a machine to give
Quiet ==
  /\ \A c \in Chans : Len(net[c]) <= MaxInFlight
  /\ \A n \in Nodes : ~cache_full[n]

\* a task of node n that a handler has woken: proposer_task when the value
\* of its slot is learned, executor_task when the value it waits for is
\* there
ProposerWoken(n) ==
  prop[n].pc = "wait_rv" /\ finished(get_cache(pax[n], prop[n].msgno))

ExecutorWoken(n) ==
  xc[n].state = "x_fetch" /\ finished(get_cache(pax[n], executed_msg[n]))

Runnable(n) == ProposerWoken(n) \/ ExecutorWoken(n)

\* the woken tasks run before any other step is taken, those of the lowest
\* node first: the steps of two nodes commute, so this order loses no state
\* of a node
Idle == \A n \in Nodes : ~Runnable(n)

FirstRunnable(n) == \A i \in Nodes : i < n => ~Runnable(i)

\* a client hands a message to node n
ClientId(n, k) == n * MaxClients + k

ClientMsg(n) ==
  /\ Idle
  /\ Quiet
  /\ clients[n] < MaxClients
  /\ n <= MaxClientNode
  /\ prop_input_queue[n] = << >>
  /\ clients' = [clients EXCEPT ![n] = @ + 1]
  /\ UNCHANGED fills
  /\ LET a == AppData("app_type", ClientId(n, clients[n] + 1), null_synode,
                      << >>, 0)
         m == PaxMsg(VOID_NODE_NO, n, "client_msg", null_synode,
                     Ballot(0, 0), Ballot(0, 0), "normal", a, 0)
         e == Engine(n)
     IN Step(dispatch_op(e, get_site_def(e.sd), m), {})

\* the transport hands message m to the node it is addressed to, the
\* local sender task to dispatch_op and the sender task of a peer to
\* acceptor_learner_task; a message that needs a machine waits until the
\* cache can give one
Deliver(c) ==
  /\ Idle
  /\ net[c] # << >>
  /\ xc[c[2]].state # "null"
  /\ LET m == Head(net[c])
     IN /\ should_poll_cache(m.op) =>
             cache_available(Engine(c[2]), m.synode)
        /\ m.op = "multi_ack_accept_op" =>
             cache_available(Engine(c[2]), Synode(m.synode.msgno, m.from))
        /\ \E someone \in IF m.op \in {"tiny_learn_op", "ack_accept_op",
                                        "multi_ack_accept_op"}
                           THEN Nodes \ {c[2]} ELSE {VOID_NODE_NO} :
             LET e == [Engine(c[2]) EXCEPT !.someone = someone]
             IN IF c[1] = c[2]
                THEN Step(dispatch_op(e, find_site_def(e.sd, m.synode), m),
                          {c})
                ELSE Step(acceptor_learner_task(e, m), {c})
  /\ UNCHANGED << clients, fills >>

\* the transport drops the message at the head of connection c
Lose(c) ==
  /\ Idle
  /\ net[c] # << >>
  /\ lost < MaxLoss
  /\ lost' = lost + 1
  /\ net' = [net EXCEPT ![c] = Tail(@)]
  /\ UNCHANGED << site_defs, executed_msg, delivered_msg, max_synode,
                  current_message, xc, delay_fifo, pax, app_log, installs,
                  lsn_log, prop_input_queue, prop, participate_paxos,
                  all_nodes_valid, client_boot_done, cache_full,
                  sweep_find, clients, lifecycle, fills >>

\* proposer_task takes a client message from prop_input_queue; the cache
\* of the node may have run out of machines by then, which only shows when
\* the task asks for one
ProposerGet(n) ==
  /\ prop[n].pc = "idle"
  /\ prop_input_queue[n] # << >>
  /\ xc[n].state # "null"
  /\ Idle
  /\ Quiet
  /\ \E full \in {FALSE} \cup {TRUE : i \in fills + 1 .. MaxFills} :
       \E after \in {proposer_retry_new(
                        proposer_get([Engine(n) EXCEPT !.full = full]))} :
         /\ full => after.prop.pc = "wait_for_cache"
         /\ fills' = IF full THEN fills + 1 ELSE fills
         /\ Step(after, {})
  /\ UNCHANGED clients

\* the wait for the executor ends: the next slot is no longer too far
ProposerTooFar(n) ==
  /\ prop[n].pc = "too_far"
  /\ ~too_far(n, incr_msgno(site_defs[n], prop[n].msgno))
  /\ Step(proposer_slot(Engine(n), prop[n].msgno), {})
  /\ UNCHANGED << clients, fills >>

\* wait_for_cache returns a machine
ProposerCache(n) ==
  /\ prop[n].pc = "wait_for_cache"
  /\ Idle
  /\ cache_available(Engine(n), prop[n].msgno)
  /\ Step(proposer_push(Engine(n)), {})
  /\ UNCHANGED << clients, fills >>

\* the wait on the machine ends because the value is learned
ProposerLearned(n) ==
  /\ ProposerWoken(n)
  /\ FirstRunnable(n)
  /\ Step(proposer_wakeup(Engine(n), FALSE), {})
  /\ UNCHANGED << clients, fills >>

\* the wait on the machine ends because three seconds have passed
ProposerTimeout(n) ==
  /\ prop[n].pc = "wait_rv"
  /\ Idle
  /\ ~finished(get_cache(pax[n], prop[n].msgno))
  /\ NextBallot(get_cache(pax[n], prop[n].msgno)) <= MaxBallot
  /\ Step(proposer_wakeup(Engine(n), TRUE), {})
  /\ UNCHANGED << clients, fills >>

\* executor_task from its loop to the next wait in get_xcom_message or
\* to its end
RECURSIVE executor_task(_)
executor_task(e) ==
  CASE e.xc.state = "x_fetch" ->
         IF finished(Machine(e, e.ex))
         THEN executor_task(x_fetch(e, Machine(e, e.ex).learner.msg))
         ELSE e
    [] e.xc.state = "x_execute" ->
         executor_task(x_execute(e, Machine(e, e.dl).learner.msg))
    [] e.xc.state = "x_terminate" -> executor_task(x_terminate(e))
    [] OTHER -> e

\* the value executor_task waits for in get_xcom_message is there
ExecutorRun(n) ==
  /\ ExecutorWoken(n)
  /\ ~ProposerWoken(n)
  /\ FirstRunnable(n)
  /\ Step(executor_task(Engine(n)), {})
  /\ UNCHANGED << clients, fills >>

ReadsInFlight ==
  Cardinality({ << c, i >> \in Chans \X (1 .. 4) :
                  i <= Len(net[c]) /\ net[c][i].op = "read_op" })

\* executor_task waits in get_xcom_message and its delay has passed: the
\* turn of the loop with wait = 2, where the failure detector decides
\* between the two things a turn can do, reading and proposing
ExecutorFind(n) ==
  /\ xc[n].state = "x_fetch"
  /\ Idle
  /\ Quiet
  /\ ~finished(get_cache(pax[n], executed_msg[n]))
  /\ \E someone \in Nodes \ {n}, iamthegreatest \in BOOLEAN :
       LET e == get_xcom_message([Engine(n) EXCEPT !.someone = someone],
                                 executed_msg[n], 2, FIND_MAX, iamthegreatest)
       IN /\ e.out # NoTraffic
          /\ IF iamthegreatest
             THEN NextBallot(get_cache(pax[n], executed_msg[n])) <= MaxBallot
             ELSE ReadsInFlight < MaxReads
          /\ Step(e, {})
  /\ UNCHANGED << clients, fills >>

\* sweeper_task runs
Sweeper(n) ==
  /\ xc[n].state # "null"
  /\ Idle
  /\ Quiet
  /\ synode_lt(sweep_find[n], max_synode[n])
  /\ ~too_far(n, sweep_find[n])
  /\ Step(sweep(Engine(n)), {})
  /\ UNCHANGED << clients, fills >>

\* the cache of node n can give machines again
CacheFree(n) ==
  /\ Idle
  /\ cache_full[n]
  /\ Step([Engine(n) EXCEPT !.full = FALSE], {})
  /\ UNCHANGED << clients, fills >>

\* the consensus rounds of the clients, with a lossy transport and caches
\* that run out of machines
Next ==
  \/ \E n \in Nodes : ClientMsg(n)
  \/ \E n \in Nodes : ProposerGet(n)
  \/ \E n \in Nodes : ProposerCache(n)
  \/ \E n \in Nodes : ProposerLearned(n)
  \/ \E c \in Chans : Deliver(c)
  \/ \E c \in Chans : Lose(c)
  \/ \E n \in Nodes : ExecutorRun(n)
  \/ \E n \in Nodes : CacheFree(n)

Spec == InitPaxos /\ [][Next]_vars

\* the rounds with the timers of the tasks: the three seconds of
\* proposer_task, the delay of get_xcom_message and the sweeper; no node
\* skips on its own and no cache runs out
InitRetry == InitConsensus({}, MaxFills, {0})

NextRetry ==
  \/ \E n \in Nodes : ClientMsg(n)
  \/ \E n \in Nodes : ProposerGet(n)
  \/ \E n \in Nodes : ProposerLearned(n)
  \/ \E n \in Nodes : ProposerTimeout(n)
  \/ \E c \in Chans : Deliver(c)
  \/ \E c \in Chans : Lose(c)
  \/ \E n \in Nodes : ExecutorFind(n)
  \/ \E n \in Nodes : ExecutorRun(n)
  \/ \E n \in Nodes : Sweeper(n)

SpecRetry == InitRetry /\ [][NextRetry]_vars

(* ------------------------------------------------------------------ *)
(* Claims about the consensus rounds                                   *)
(* ------------------------------------------------------------------ *)
\* C1: Agreement.  For any two nodes and any synode, when the machines of
\* both nodes for that synode are finished, the two learned values are
\* equal: the same msg_type and, unless it is no_op, the same unique id of
\* the app data.
C1_Agreement ==
  \A i \in Nodes, j \in Nodes :
    \A s \in DOMAIN pax[i] \cap DOMAIN pax[j] :
      LET v == pax[i][s].learner.msg
          w == pax[j][s].learner.msg
      IN finished(pax[i][s]) /\ finished(pax[j][s]) =>
           /\ v.msg_type = w.msg_type
           /\ v.msg_type # "no_op" => v.a.id = w.a.id

\* C2: Total order of delivery.  At every node execute_msg is called at
\* strictly increasing synodes, so at most once for a synode; two nodes
\* that have both delivered a synode have delivered the same value for it;
\* and the delivered sequences are prefixes of one total order: what one
\* node has delivered at a synode that another node has gone past, the
\* other node has delivered too.
C2_TotalOrder ==
  /\ \A n \in Nodes : \A i \in 1 .. Len(app_log[n]) :
        \A j \in i + 1 .. Len(app_log[n]) :
          synode_lt(app_log[n][i][1], app_log[n][j][1])
  /\ \A n \in Nodes, m \in Nodes :
        \A i \in 1 .. Len(app_log[n]) :
          LET s == app_log[n][i][1]
              same == { j \in 1 .. Len(app_log[m]) : app_log[m][j][1] = s }
          IN /\ \A j \in same : app_log[m][j][2].a.id = app_log[n][i][2].a.id
             /\ synode_lt(s, delivered_msg[m]) => same # {}

\* C4: Validity.  Every value a machine has learned is no_op or the app
\* data of a client message that a proposer task has taken from its input
\* queue: a message some client has handed to a node and that is no longer
\* waiting in the queue of that node.
C4_Validity ==
  \A n \in Nodes : \A s \in DOMAIN pax[n] :
    LET v == pax[n][s].learner.msg
    IN finished(pax[n][s]) /\ v.msg_type # "no_op" =>
         /\ v.a.c_t = "app_type"
         /\ \E m \in Nodes : \E k \in 1 .. clients[m] :
               /\ v.a.id = ClientId(m, k)
               /\ \A i \in 1 .. Len(prop_input_queue[m]) :
                     prop_input_queue[m][i].id # v.a.id

\* a machine has learned the value of a client
C4_Witness ==
  \E n \in Nodes : \E s \in DOMAIN pax[n] :
    /\ finished(pax[n][s])
    /\ pax[n][s].learner.msg.msg_type # "no_op"
    /\ pax[n][s].learner.msg.a.c_t = "app_type"

(* ------------------------------------------------------------------ *)
(* Slot selection under reconfiguration: the proposer and the executor *)
(* of one node, the executor fed with the values the group has learned *)
(* ------------------------------------------------------------------ *)
\* length of the run of this specification, in message numbers
OwnRun == 15

\* a learn_op for executed_msg arrives: no_op or the removal of nodes;
\* where the node has proposed, the group has learned no_op
OwnLearn(n) ==
  /\ executed_msg[n].msgno <= OwnRun
  /\ CfgLearn(n)
  /\ pax'[n][executed_msg[n]].learner.msg.a.c_t
       \in {"none", "remove_node_type"}
  /\ get_cache(pax[n], executed_msg[n]).proposer.msg.op # "null" =>
       pax'[n][executed_msg[n]].learner.msg.msg_type = "no_op"

\* the node is the second of the first site: the removal of the first
\* gives it another node number
NextOwn ==
  \/ OwnLearn(InitNodes[2])
  \/ ExecutorRun(InitNodes[2])
  \/ ClientMsg(InitNodes[2])
  \/ ProposerGet(InitNodes[2])
  \/ ProposerLearned(InitNodes[2])

SpecOwn == InitEngine /\ [][NextOwn]_vars

\* C5: Ownership.  Whenever a node puts a client value of its own into the
\* proposer of a machine, the node field of the synode of the machine is
\* the node number of the node in the site find_site_def gives for that
\* synode, also when the node has been renumbered by a reconfiguration;
\* values the node adopts from others are not its own.
C5_Ownership ==
  [][\A n \in Nodes : \A s \in DOMAIN pax'[n] :
       LET new == pax'[n][s].proposer.msg
       IN ( /\ new # get_cache(pax[n], s).proposer.msg
            /\ new.msg_type # "no_op"
            /\ new.a.c_t = "app_type"
            /\ \E k \in 1 .. clients[n] : new.a.id = ClientId(n, k) )
          => s.node = get_nodeno(find_site_def(site_defs'[n], s))
    ]_vars

(* ------------------------------------------------------------------ *)
(* The machines of one node under any traffic: its peers send it any   *)
(* message of the protocol for a synode at executed_msg, for its own   *)
(* slot or for a synode beyond the event horizon, and read what it     *)
(* answers at once                                                     *)
(* ------------------------------------------------------------------ *)
MachineNode == PaxosNodes[2]
\* the other nodes of the site
MachinePeers ==
  { PaxosNodes[i] : i \in 1 .. Len(PaxosNodes) } \ {MachineNode}
\* highest ballot count the peers use
MaxPeerBallot == 1

\* the operations a peer sends to an acceptor and learner, and those it
\* sends to a proposer
AcceptorOps ==
  {"prepare_op", "accept_op", "learn_op", "recover_learn_op",
   "tiny_learn_op", "skip_op", "read_op"}
ProposerOps ==
  {"ack_prepare_op", "ack_prepare_empty_op", "ack_accept_op",
   "multi_ack_accept_op", "learn_op", "tiny_learn_op", "skip_op"}

\* the value a proposer sends with ballot b for synode s: the owner of the
\* synode proposes the value of its client, any other node no_op
PeerValue(b, s) ==
  IF b.node = s.node
  THEN Value("normal",
             AppData("app_type", ClientId(s.node, 1), s, << >>, 0))
  ELSE NoOpValue

\* the message of peer from for synode s with operation op: proposal is
\* the ballot of the value of the message and reply_to the ballot it
\* answers; a skip carries no payload
PeerMsg(from, s, op, proposal, reply_to, force) ==
  IF op = "skip_op"
  THEN PaxMsg(from, MachineNode, op, s, proposal, reply_to,
              NoOpValue.msg_type, NoOpValue.a, force)
  ELSE PaxMsg(from, MachineNode, op, s, proposal, reply_to,
              PeerValue(proposal, s).msg_type, PeerValue(proposal, s).a,
              force)

\* what peer from sends to the acceptor and learner of synode s, with its
\* own ballots
AcceptorMsgs(from, s) ==
  { PeerMsg(from, s, op, Ballot(cnt, from), Ballot(cnt, from), force) :
      op \in AcceptorOps, cnt \in 0 .. MaxPeerBallot, force \in 0 .. 1 }

\* what peer from sends to the proposer of synode s: answers to a ballot
\* of the proposer with a value of the peer or of the proposer
ProposerMsgs(from, s) ==
  { PeerMsg(from, s, op, Ballot(cnt, k), Ballot(re, MachineNode), 0) :
      op \in ProposerOps, cnt \in 0 .. MaxPeerBallot,
      re \in 0 .. MaxPeerBallot, k \in {from, MachineNode} }

\* the channel on which the messages of peer from reach node n
FromPeer(from, n) == << from, n, "req" >>

\* peer m.from sends m to node n: the peers have read what was in flight,
\* and m is the one message of a peer on its way to n
PeerSend(n, m) ==
  /\ prop[n].pc # "wait_for_cache"
  /\ \A from \in Nodes \ {n} : net[FromPeer(from, n)] = << >>
  /\ net' = [c \in Chans |->
               IF c = FromPeer(m.from, n) THEN << m >>
               ELSE IF c = Local(n) THEN net[c] ELSE << >>]
  /\ UNCHANGED << site_defs, executed_msg, delivered_msg, max_synode,
                  current_message, xc, delay_fifo, pax, app_log, installs,
                  lsn_log, prop_input_queue, prop, participate_paxos,
                  all_nodes_valid, client_boot_done, cache_full, sweep_find,
                  clients, lifecycle, lost, fills >>

\* acceptor_learner_task of node n reads the message of peer from that is
\* in flight; someone is the peer send_to_someone picks
Receive(n, from) ==
  /\ prop[n].pc # "wait_for_cache"
  /\ net[FromPeer(from, n)] # << >>
  /\ \E m \in {Head(net[FromPeer(from, n)])} :
       \E someone \in IF m.op \in {"tiny_learn_op", "ack_accept_op",
                                    "multi_ack_accept_op"}
                       THEN MachinePeers ELSE {VOID_NODE_NO} :
         Step(acceptor_learner_task([Engine(n) EXCEPT !.someone = someone],
                                    m),
              {FromPeer(from, n)})
  /\ UNCHANGED << clients, fills >>

InitMachine == InitConsensus({}, MaxFills, Nodes \ {MachineNode})

\* the peers send the node what an acceptor and learner of the synode at
\* executed_msg gets until a client hands the node a message, and what the
\* proposer of its own slot gets from then on; the client comes before
\* any traffic or never
NextMachine ==
  \/ /\ clients[MachineNode] = 0
     /\ \E from \in MachinePeers :
          \E m \in AcceptorMsgs(from, PaxosExecuted) :
            PeerSend(MachineNode, m)
  \/ /\ clients[MachineNode] > 0
     /\ \E m \in ProposerMsgs(PaxosNodes[1],
                                Synode(PaxosExecuted.msgno, MachineNode)) :
          PeerSend(MachineNode, m)
  \/ \E from \in MachinePeers : Receive(MachineNode, from)
  \/ pax[MachineNode] = << >> /\ ClientMsg(MachineNode)
  \/ ProposerGet(MachineNode)
  \/ ProposerLearned(MachineNode)

SpecMachine == InitMachine /\ [][NextMachine]_vars

\* C19: learned values are final.  Once a machine is finished no step
\* changes the value or the ballot of its learner.msg, and its
\* acceptor.msg no longer changes.
C19_LearnedFinal ==
  [][\A n \in Nodes : \A s \in DOMAIN pax[n] :
       finished(pax[n][s]) =>
         /\ s \in DOMAIN pax'[n]
         /\ finished(pax'[n][s])
         /\ pax'[n][s].learner.msg.msg_type = pax[n][s].learner.msg.msg_type
         /\ pax'[n][s].learner.msg.a = pax[n][s].learner.msg.a
         /\ pax'[n][s].learner.msg.proposal = pax[n][s].learner.msg.proposal
         /\ pax'[n][s].acceptor.msg = pax[n][s].acceptor.msg
    ]_vars

\* a finished machine with a normal value has answered a later prepare with
\* a learn message
C19_Witness ==
  \E s \in DOMAIN pax[MachineNode] :
    /\ clients[MachineNode] = 0
    /\ finished(pax[MachineNode][s])
    /\ pax[MachineNode][s].learner.msg.msg_type = "normal"
    /\ \E c \in Chans : \E i \in 1 .. Len(net[c]) :
         /\ net[c][i].from = MachineNode
         /\ net[c][i].op = "learn_op"

\* C20: acceptor.promise of a machine never decreases in ballot order.
C20_PromiseMonotonic ==
  [][\A n \in Nodes : \A s \in DOMAIN pax[n] :
       /\ s \in DOMAIN pax'[n]
       /\ ~gt_ballot(pax[n][s].acceptor.promise, pax'[n][s].acceptor.promise)
    ]_vars

\* a machine that accepted a value has promised a higher ballot since
C20_Witness ==
  \E s \in DOMAIN pax[MachineNode] :
    /\ pax[MachineNode][s].acceptor.msg.op = "accept_op"
    /\ gt_ballot(pax[MachineNode][s].acceptor.promise,
                 pax[MachineNode][s].acceptor.msg.proposal)

(* ------------------------------------------------------------------ *)
(* The lifecycle specification: one node from the start of its        *)
(* process, the clients, the peers and the recovery manager around it  *)
(* ------------------------------------------------------------------ *)
FsmNode == InitNodes[1]
FsmPeer == InitNodes[2]
\* commands that wait in the input queue
MaxFsmQueue == 1
\* highest message number of the group the node is booted into
MaxFsmStart == 3
\* groups the node leaves for good, and x_fsm_complete events that wait
MaxFsmLeft == 1
MaxFsmPending == 0

\* filled: the times a cache has run out of machines
InitLife(filled) ==
  /\ site_defs = [n \in Nodes |-> << >>]
  /\ executed_msg = [n \in Nodes |-> null_synode]
  /\ delivered_msg = [n \in Nodes |-> null_synode]
  /\ max_synode = [n \in Nodes |-> null_synode]
  /\ current_message = [n \in Nodes |-> null_synode]
  /\ xc = [n \in Nodes |-> [InitContext EXCEPT !.state = "null"]]
  /\ delay_fifo = [n \in Nodes |-> << >>]
  /\ pax = [n \in Nodes |-> << >>]
  /\ app_log = [n \in Nodes |-> << >>]
  /\ installs = [n \in Nodes |-> << >>]
  /\ lsn_log = [n \in Nodes |-> << >>]
  /\ net = NoTraffic
  /\ prop_input_queue = [n \in Nodes |-> << >>]
  /\ prop = [n \in Nodes |-> InitProposer]
  /\ participate_paxos = [n \in Nodes |-> {}]
  /\ all_nodes_valid = [n \in Nodes |-> 0]
  /\ client_boot_done = [n \in Nodes |-> 0]
  /\ cache_full = [n \in Nodes |-> FALSE]
  /\ sweep_find = [n \in Nodes |-> null_synode]
  /\ clients = [n \in Nodes |-> 0]
  /\ lifecycle = [n \in Nodes |-> InitLifecycle]
  /\ lost = 0
  /\ fills = filled

InitFsm == InitLife(0)

\* the peers and the client have taken what the node has sent them
FsmQuiet ==
  /\ \A c \in Chans : net[c] = << >>
  /\ lifecycle[FsmNode].cli_err = << >>

\* the clients, the peers and the recovery manager are slow: they wait for
\* the tasks of the node
FsmOpen ==
  /\ FsmQuiet
  /\ Len(prop_input_queue[FsmNode]) < MaxFsmQueue
  /\ lifecycle[FsmNode].dead_sites.n < MaxFsmLeft
  /\ lifecycle[FsmNode].x_fsm_completion <= MaxFsmPending

WithGroup(a, g) == a @@ [group_id |-> g]

FsmBootApps ==
  { WithGroup(AppData("unified_boot_type", 0, Synode(MaxFsmStart, 0), nl,
                      0), 0) : nl \in {InitNodes, << FsmPeer, 2 >>} }

FsmLifecycleApps ==
  { WithGroup(AppData(ct, 0, null_synode, << >>, 0), 0) :
      ct \in {"exit_type", "reset_type", "remove_reset_type",
              "x_terminate_and_exit"} }

\* the commands, and with each what the detector suspects and what is read
\* in place of a node list
FsmCfgApps ==
  { << WithGroup(AppData(r[1], 0, null_synode, r[2], r[3]), r[4]),
       r[5], r[6] >> :
      r \in { << "add_node_type", << 2 >>, 0, 0, {}, FALSE >>,
              << "add_node_type", << 2 >>, 0, GroupId + 1, {}, FALSE >>,
              << "add_node_type", << FsmNode >>, 0, 0, {}, FALSE >>,
              << "add_node_type", << FsmPeer >>, 0, 0, {}, FALSE >>,
              << "remove_node_type", << FsmPeer >>, 0, 0, {}, FALSE >>,
              << "remove_node_type", << 2 >>, 0, 0, {}, FALSE >>,
              << "force_config_type", InitNodes, 0, 0, {}, FALSE >>,
              << "force_config_type", InitNodes, 0, 0, {1}, FALSE >>,
              << "force_config_type", << 2 >>, 0, 0, {}, FALSE >>,
              << "set_event_horizon_type", << >>, 0, 0, {}, FALSE >>,
              << "set_event_horizon_type", << >>, EVENT_HORIZON_MIN + 1, 0,
                 {}, FALSE >>,
              << "set_event_horizon_type", << >>, EVENT_HORIZON_MIN + 1, 0,
                 {}, TRUE >> } }

ClientPaxMsg(a) ==
  PaxMsg(VOID_NODE_NO, FsmNode, "client_msg", null_synode, Ballot(0, 0),
         Ballot(0, 0), "normal", a, 0)

\* a client sends a command: dispatch_op, called by the local server
FsmClient(a, suspected, stray) ==
  /\ FsmOpen
  /\ LET e == [Engine(FsmNode) EXCEPT !.suspected = suspected,
                                     !.stray_nodes = stray]
     IN Step(dispatch_op(e, get_site_def(e.sd), ClientPaxMsg(a)), {})
  /\ UNCHANGED << clients, fills >>

FsmSnapshots ==
  { [configs |-> << Site(Synode(MaxFsmStart, 0), Synode(MaxFsmStart, 0),
                         InitNodes, EVENT_HORIZON_MIN, VOID_NODE_NO) >>,
     log_start |-> Synode(MaxFsmStart, 0),
     log_end |-> Synode(MaxFsmStart + k, 0)] : k \in 0 .. 1 }

\* the actions the recovery manager calls xcom_fsm with
FsmManagerActions ==
  { << "x_fsm_snapshot_wait", 0 >> }
  \cup { << "x_fsm_local_snapshot", gcs >> : gcs \in FsmSnapshots }

FsmManager(action) ==
  /\ FsmOpen
  /\ Step(xcom_fsm_impl(Engine(FsmNode), action[1], action[2]), {})
  /\ UNCHANGED << clients, fills >>

\* xcom_timer has slept and sends x_fsm_timeout
FsmTimeout ==
  /\ FsmQuiet
  /\ lifecycle[FsmNode].x_timer = 1
  /\ Step(xcom_fsm_impl([Engine(FsmNode) EXCEPT !.fsm.x_timer = 0],
                        "x_fsm_timeout", 0), {})
  /\ UNCHANGED << clients, fills >>

\* x_fsm_completion_task sends x_fsm_complete
FsmComplete ==
  /\ FsmQuiet
  /\ lifecycle[FsmNode].x_fsm_completion > 0
  /\ Step(xcom_fsm_impl([Engine(FsmNode) EXCEPT
                           !.fsm.x_fsm_completion = @ - 1],
                        "x_fsm_complete", 0), {})
  /\ UNCHANGED << clients, fills >>

FsmSynodes == { Synode(MaxFsmStart + 1, 1) }

PeerPaxMsg(op, synode, mt) ==
  PaxMsg(1, 0, op, synode, Ballot(1, 1), Ballot(0, 1), mt, NoApp, 0)

\* prepare_op and accept_op of the peer, read by acceptor_learner_task once
\* the cache has a machine for them
FsmAcceptorMsgs ==
  { PeerPaxMsg(op, s, "no_op") :
      op \in {"prepare_op", "accept_op"}, s \in FsmSynodes }

FsmAcceptor(m) ==
  /\ FsmOpen
  /\ cache_available(Engine(FsmNode), m.synode)
  /\ Step(acceptor_learner_task(Engine(FsmNode), m), {})
  /\ UNCHANGED << clients, fills >>

\* the snapshot a peer sends, read by acceptor_learner_task
FsmSnapshotMsgs ==
  { PeerPaxMsg("gcs_snapshot_op", gcs.log_end, "normal")
      @@ [gcs_snap |-> gcs, group_id |-> GroupId] : gcs \in FsmSnapshots }

FsmSnapshot(m) ==
  /\ FsmOpen
  /\ Step(acceptor_learner_task(Engine(FsmNode), m), {})
  /\ UNCHANGED << clients, fills >>

\* the answers of the peer that reply_handler_task hands to dispatch_op
\* without asking the cache first
FsmReplies ==
  { PeerPaxMsg(op, s, "no_op") : op \in {"learn_op"}, s \in FsmSynodes }

FsmReply(m) ==
  /\ FsmOpen
  /\ LET e == Engine(FsmNode)
     IN Step(dispatch_op(e, find_site_def(e.sd, m.synode), m), {})
  /\ UNCHANGED << clients, fills >>

\* the cache has no machine left to give, or has one again
FsmCache(full) ==
  /\ cache_full[FsmNode] # full
  /\ cache_full' = [cache_full EXCEPT ![FsmNode] = full]
  /\ UNCHANGED << site_defs, executed_msg, delivered_msg, max_synode,
                  current_message, xc, delay_fifo, pax, app_log, installs,
                  lsn_log, net, prop_input_queue, prop, participate_paxos,
                  all_nodes_valid, client_boot_done, sweep_find, clients,
                  lifecycle, lost, fills >>

\* a peer takes a message the node has sent it
FsmPeerTakes(c) ==
  /\ net[c] # << >>
  /\ net' = [net EXCEPT ![c] = Tail(@)]
  /\ UNCHANGED << site_defs, executed_msg, delivered_msg, max_synode,
                  current_message, xc, delay_fifo, pax, app_log, installs,
                  lsn_log, prop_input_queue, prop, participate_paxos,
                  all_nodes_valid, client_boot_done, cache_full, sweep_find,
                  clients, lifecycle, lost, fills >>

\* the client takes the reply to its command
FsmClientTakes ==
  /\ lifecycle[FsmNode].cli_err # << >>
  /\ lifecycle' = [lifecycle EXCEPT ![FsmNode].cli_err = Tail(@)]
  /\ UNCHANGED << site_defs, executed_msg, delivered_msg, max_synode,
                  current_message, xc, delay_fifo, pax, app_log, installs,
                  lsn_log, net, prop_input_queue, prop, participate_paxos,
                  all_nodes_valid, client_boot_done, cache_full, sweep_find,
                  clients, lost, fills >>

\* proposer_task takes the command at the head of the input queue
FsmProposerTakes ==
  /\ client_boot_done[FsmNode] # 0
  /\ prop_input_queue[FsmNode] # << >>
  /\ prop_input_queue' = [prop_input_queue EXCEPT ![FsmNode] = Tail(@)]
  /\ UNCHANGED << site_defs, executed_msg, delivered_msg, max_synode,
                  current_message, xc, delay_fifo, pax, app_log, installs,
                  lsn_log, net, prop, participate_paxos, all_nodes_valid,
                  client_boot_done, cache_full, sweep_find, clients,
                  lifecycle, lost, fills >>

NextFsm ==
  \/ \E a \in FsmBootApps \cup FsmLifecycleApps : FsmClient(a, {}, FALSE)
  \/ \E r \in FsmCfgApps : FsmClient(r[1], r[2], r[3])
  \/ \E action \in FsmManagerActions : FsmManager(action)
  \/ FsmTimeout
  \/ FsmComplete
  \/ \E m \in FsmAcceptorMsgs : FsmAcceptor(m)
  \/ \E m \in FsmSnapshotMsgs : FsmSnapshot(m)
  \/ \E m \in FsmReplies : FsmReply(m)
  \/ \E full \in BOOLEAN : FsmCache(full)
  \/ \E c \in Chans : FsmPeerTakes(c)
  \/ FsmClientTakes
  \/ FsmProposerTakes

SpecFsm == InitFsm /\ [][NextFsm]_vars

AckOps ==
  {"ack_prepare_op", "ack_prepare_empty_op", "ack_accept_op",
   "multi_ack_accept_op"}

\* C12: client_boot_done is set only while the FSM rests in run, and while
\* it is not set a prepare_op or accept_op that arrives changes the
\* promise and the accepted message of no machine and is answered by no ack.
C12_AcceptorOnlyWhenBooted ==
  [][/\ \A n \in Nodes :
          client_boot_done'[n] # 0 => lifecycle'[n].state = "xcom_fsm_run"
     /\ \A m \in FsmAcceptorMsgs :
          (client_boot_done[FsmNode] = 0 /\ FsmAcceptor(m)) =>
            /\ \A s \in DOMAIN pax'[FsmNode] :
                 get_cache(pax'[FsmNode], s).acceptor
                   = get_cache(pax[FsmNode], s).acceptor
            /\ \A c \in Chans : \A i \in 1 .. Len(net'[c]) :
                 net'[c][i].op \notin AckOps
    ]_vars

\* a node that has never been booted holds the machine of a prepare_op or
\* accept_op it has ignored
C12_Witness ==
  /\ client_boot_done[FsmNode] = 0
  /\ lifecycle[FsmNode].state
       \in {"xcom_fsm_start", "xcom_fsm_snapshot_wait",
            "xcom_fsm_recover_wait"}
  /\ lifecycle[FsmNode].start_config = null_synode
  /\ lifecycle[FsmNode].xcom_shutdown = 0
  /\ \E s \in DOMAIN pax[FsmNode] :
       /\ pax[FsmNode][s].learner.msg.op = "null"
       /\ pax[FsmNode][s].acceptor.msg.op = "null"
       /\ pax[FsmNode][s].acceptor.promise.cnt = 0

\* x_fsm_terminate is delivered to the FSM of the node
Terminated(e) == xcom_fsm_impl(e, "x_fsm_terminate", 0)

\* the FSM state and the shared variables of the engine
EngineVariables(e) ==
  << e.fsm.state, e.sd, e.ex, e.dl, e.mx, e.cm, e.boot, e.pm, e.queue,
     e.prop, e.xc, e.fsm.tasks, e.fsm.forced_config, e.fsm.xcom_shutdown >>

\* C13 as stated: x_fsm_terminate delivered twice from run leaves what one
\* delivery leaves, and delivered in any state other than run it changes
\* neither the FSM state nor any variable of the engine.
C13_TerminateIdempotent ==
  LET e == Engine(FsmNode)
  IN IF e.fsm.state = "xcom_fsm_run"
     THEN Terminated(Terminated(e)) = Terminated(e)
     ELSE Terminated(e) = e

\* C13, amended: x_fsm_terminate delivered twice from run leaves what one
\* delivery leaves, and delivered in start, snapshot_wait or recover_wait
\* it changes neither the FSM state nor any shared variable of the engine.
C13_TerminateIdempotentOnceStarted ==
  LET e == Engine(FsmNode)
  IN /\ e.fsm.state = "xcom_fsm_run" =>
          Terminated(Terminated(e)) = Terminated(e)
     /\ e.fsm.state \in {"xcom_fsm_start", "xcom_fsm_snapshot_wait",
                         "xcom_fsm_recover_wait"} =>
          EngineVariables(Terminated(e)) = EngineVariables(e)

\* the node has been in run and x_fsm_terminate has taken it to start
C13_Witness ==
  /\ lifecycle[FsmNode].state = "xcom_fsm_start"
  /\ lifecycle[FsmNode].start_config # null_synode
  /\ lifecycle[FsmNode].xcom_shutdown = 0
  /\ client_boot_done[FsmNode] = 0
  /\ site_defs[FsmNode] = << >>

\* what handle_fsm_terminate leaves of the tasks and the shared variables
TerminatedState(n) ==
  /\ lifecycle[n].tasks \cap RunTasks = {}
  /\ site_defs[n] = << >>
  /\ executed_msg[n] = null_synode
  /\ delivered_msg[n] = null_synode
  /\ max_synode[n] = null_synode
  /\ current_message[n] = null_synode

\* C14: after x_fsm_terminate is handled in run the tasks of run are
\* terminated, the site history is empty, the four synods are null and the
\* id of the group that was left is in the ring of dead sites.
C14_TerminateBuriesGroup ==
  [][(/\ lifecycle[FsmNode].state = "xcom_fsm_run"
      /\ lifecycle'[FsmNode].state = "xcom_fsm_start") =>
       /\ TerminatedState(FsmNode)'
       /\ is_dead_site([fsm |-> lifecycle'[FsmNode]],
                       get_group_id(get_site_def(site_defs[FsmNode])))
    ]_vars

\* what the validation of the command of r gives
Validation(r) ==
  can_execute_cfgchange([Engine(FsmNode) EXCEPT !.suspected = r[2],
                                                !.stray_nodes = r[3]],
                        ClientPaxMsg(r[1]))

\* C15: a reconfiguration command is put on the input queue, and a forced
\* configuration started, if and only if its validation gives REQUEST_OK;
\* a command that fails it is answered by one reply with REQUEST_FAIL and
\* changes neither the site history, the input queue, forced_config nor
\* any machine.
C15_RejectedRequestsChangeNothing ==
  [][\A r \in FsmCfgApps :
       FsmClient(r[1], r[2], r[3]) =>
         /\ Validation(r) = "REQUEST_OK" =>
              /\ prop_input_queue'[FsmNode]
                   = Append(prop_input_queue[FsmNode], r[1])
              /\ r[1].c_t = "force_config_type" =>
                   /\ lifecycle'[FsmNode].wait_forced_config = 1
                   /\ lifecycle'[FsmNode].forced_config.nodes = r[1].nodes
         /\ Validation(r) # "REQUEST_OK" =>
              /\ prop_input_queue'[FsmNode] = prop_input_queue[FsmNode]
              /\ lifecycle'[FsmNode].forced_config
                   = lifecycle[FsmNode].forced_config
              /\ lifecycle'[FsmNode].wait_forced_config
                   = lifecycle[FsmNode].wait_forced_config
         /\ Validation(r) = "REQUEST_FAIL" =>
              /\ lifecycle'[FsmNode].cli_err = << "REQUEST_FAIL" >>
              /\ site_defs'[FsmNode] = site_defs[FsmNode]
              /\ pax'[FsmNode] = pax[FsmNode]
    ]_vars

\* the dispatch of reply m finds no machine for the synod of m
NoMachineFor(m) ==
  LET e == Engine(FsmNode)
  IN dispatch_before_fsm(e, find_site_def(e.sd, m.synode), m)
       .fsm.no_cache_abort # 0

\* C16: when dispatch_op finds no machine for the synod of a message the
\* FSM is in start and xcom_shutdown is 1 once dispatch_op has returned,
\* whatever the state the FSM was in.
C16_FatalErrorsTerminate ==
  [][\A m \in FsmReplies :
       (FsmReply(m) /\ NoMachineFor(m)) =>
         /\ lifecycle'[FsmNode].state = "xcom_fsm_start"
         /\ lifecycle'[FsmNode].xcom_shutdown = 1
    ]_vars

(* ------------------------------------------------------------------ *)
(* The proposer of one node and its input queue: clients send payloads *)
(* and commands, the node is booted alone into a group, leaves it and  *)
(* is booted again                                                     *)
(* ------------------------------------------------------------------ *)
\* messages that wait in the input queue, messages the clients send,
\* batches the proposer takes and groups the node leaves
MaxBatchQueue == 4
MaxBatchClients == 5
MaxBatchGets == 3
MaxBatchLeft == 1

InitBatch == InitLife(MaxFills)

\* what a client can send as its message number id
BatchApps(id) ==
  { [AppData("app_type", id, null_synode, << >>, 0) EXCEPT !.size = sz] :
      sz \in 1 .. 2 }
  \cup { AppData("view_msg", id, null_synode, << >>, 0),
         WithGroup(AppData("add_node_type", id, null_synode, << 2 >>, 0),
                   0) }

BatchBoot ==
  WithGroup(AppData("unified_boot_type", 0, Synode(MaxFsmStart, 0),
                    << FsmNode >>, 0), 0)
BatchReset == WithGroup(AppData("reset_type", 0, null_synode, << >>, 0), 0)

\* a client sends a payload or a command: dispatch_op, called by the local
\* server
BatchClient(a) ==
  /\ lifecycle[FsmNode].cli_err = << >>
  /\ Len(prop_input_queue[FsmNode]) < MaxBatchQueue
  /\ clients[FsmNode] < MaxBatchClients
  /\ clients' = [clients EXCEPT ![FsmNode] = @ + 1]
  /\ LET e == Engine(FsmNode)
     IN Step(dispatch_op(e, get_site_def(e.sd), ClientPaxMsg(a)), {})
  /\ UNCHANGED fills

\* a client boots the node or makes it leave its group
BatchLifecycle(a) ==
  /\ lifecycle[FsmNode].cli_err = << >>
  /\ a = BatchReset => lifecycle[FsmNode].dead_sites.n < MaxBatchLeft
  /\ Len(prop_input_queue[FsmNode]) < MaxBatchQueue
  /\ LET e == Engine(FsmNode)
     IN Step(dispatch_op(e, get_site_def(e.sd), ClientPaxMsg(a)), {})
  /\ UNCHANGED << clients, fills >>

\* proposer_task takes what waits in the input queue
BatchGet ==
  /\ Len(lsn_log[FsmNode]) < MaxBatchGets
  /\ ProposerGet(FsmNode)

NextBatch ==
  \/ \E a \in BatchApps(clients[FsmNode] + 1) : BatchClient(a)
  \/ \E a \in {BatchBoot, BatchReset} : BatchLifecycle(a)
  \/ BatchGet
  \/ ProposerLearned(FsmNode)
  \/ FsmClientTakes

SpecBatch == InitBatch /\ [][NextBatch]_vars

\* the site of the history of n that the i-th applied reconfiguration of n
\* has pushed
InstalledSite(n, i) == site_defs[n][Len(installs[n]) - i + 1]

\* C21: a site that has been pushed onto the site history keeps its start,
\* boot_key, node list and event horizon, whatever is done after the push:
\* every site of the history is as it was when it was pushed.
C21_SitesImmutable ==
  \A n \in Nodes : \A i \in 1 .. Len(installs[n]) :
    LET pushed == installs[n][i].site
    IN /\ InstalledSite(n, i).start = pushed.start
       /\ InstalledSite(n, i).boot_key = pushed.boot_key
       /\ InstalledSite(n, i).nodes = pushed.nodes
       /\ InstalledSite(n, i).event_horizon = pushed.event_horizon

\* the numbers the clients have given to the payloads of a sequence
Ids(apps) == [i \in 1 .. Len(apps) |-> apps[i].id]

\* the batch the proposer of n has taken last, its head first
LastBatch(n) == app_list(lsn_log[n][Len(lsn_log[n])])

\* C22: the list of a batch holds the payloads in the order in which they
\* were taken from the input queue, and what the proposer does not take
\* stays in the queue in its order: the batch followed by the queue is the
\* queue as it was.
C22_BatchKeepsArrivalOrder ==
  [][BatchGet =>
       Ids(LastBatch(FsmNode))' \o Ids(prop_input_queue[FsmNode])'
         = Ids(prop_input_queue[FsmNode])
    ]_vars

\* C23: every batch the process proposes has a log sequence number greater
\* than that of every batch it has proposed before, also when the node
\* has left its group and been booted again in between; the payloads of
\* a batch share its number, and the batch keeps it while the proposer
\* looks for a synode for it.
C23_LsnStrictlyIncreasing ==
  \A n \in Nodes :
    /\ \A i \in 1 .. Len(lsn_log[n]) : \A j \in 1 .. Len(lsn_log[n]) :
         i < j => lsn_log[n][i].lsn < lsn_log[n][j].lsn
    /\ \A i \in 1 .. Len(lsn_log[n]) :
         \A k \in 1 .. Len(lsn_log[n][i].next) :
           lsn_log[n][i].next[k].lsn = lsn_log[n][i].lsn
    /\ prop[n].client_msg.c_t # "none" =>
         prop[n].client_msg = lsn_log[n][Len(lsn_log[n])]

(* ------------------------------------------------------------------ *)
(* The acceptor and learner of one synode: what a message of a peer    *)
(* does to the machine and what is sent back                           *)
(* ------------------------------------------------------------------ *)

\* the message of peer from that is in flight to the node
Arrived(from) == Head(net[FromPeer(from, MachineNode)])

\* the node reads a message of peer from whose operation is op, and none
\* of the messages it has sent to itself waits for the local sender task,
\* so that the step is the step of the handler of that message
Reads(from, op) ==
  /\ net[Local(MachineNode)] = << >>
  /\ net[FromPeer(from, MachineNode)] # << >>
  /\ Arrived(from).op = op
  /\ Receive(MachineNode, from)

\* the machine of the node for the synode of m before the message is read,
\* and after
MachineOf(m) == get_cache(pax[MachineNode], m.synode)
MachineAfter(m) == get_cache(pax'[MachineNode], m.synode)

\* the proposer, acceptor and learner of machine p: what the handlers of
\* the protocol messages work on
Roles(p) ==
  [proposer |-> p.proposer, acceptor |-> p.acceptor, learner |-> p.learner]

\* what the node has sent back to the sender of m in this step
RepliesTo(m) == net'[<< MachineNode, m.from, "rep" >>]

\* the node has sent nothing to any node in this step
NothingSent == \A c \in Chans : c[1] = MachineNode => net'[c] = net[c]

\* r is a learn message for the synode of m with the value p has learned
LearnOf(r, p, m) ==
  /\ r.op = "learn_op"
  /\ r.synode = m.synode
  /\ r.msg_type = p.learner.msg.msg_type
  /\ r.a = p.learner.msg.a

\* r answers the prepare m with what p has accepted, or with nothing when
\* p has accepted nothing
AckPrepareOf(r, p, m) ==
  /\ r.synode = m.synode
  /\ r.reply_to = m.reply_to
  /\ IF accepted(p)
     THEN /\ r.op = "ack_prepare_op"
          /\ r.proposal = p.acceptor.msg.proposal
          /\ r.msg_type = p.acceptor.msg.msg_type
          /\ r.a = p.acceptor.msg.a
     ELSE r.op = "ack_prepare_empty_op"

\* the prepare m is answered: its ballot is above the promise, or it is a
\* no_op for a machine that has accepted a no_op
PrepareAnswered(p, m) ==
  gt_ballot(m.proposal, p.acceptor.promise) \/ noop_match(p, m)

\* what the acceptor does with the prepare m when an answered prepare
\* leaves the promise at promised
OnPrepare(m, promised) ==
  IF finished(MachineOf(m))
  THEN /\ Roles(MachineAfter(m)) = Roles(MachineOf(m))
       /\ Len(RepliesTo(m)) = 1
       /\ LearnOf(RepliesTo(m)[1], MachineOf(m), m)
  ELSE IF PrepareAnswered(MachineOf(m), m)
       THEN /\ Roles(MachineAfter(m)) =
                 Roles([MachineOf(m) EXCEPT !.acceptor.promise = promised])
            /\ Len(RepliesTo(m)) = 1
            /\ AckPrepareOf(RepliesTo(m)[1], MachineOf(m), m)
       ELSE /\ Roles(MachineAfter(m)) = Roles(MachineOf(m))
            /\ NothingSent

\* C26 as stated: a prepare with ballot b for a machine that is not
\* finished, with b above the promise or a no_op prepare for an accepted
\* no_op, sets the promise to b and is answered by ack_prepare with the
\* accepted ballot and value or by ack_prepare_empty; a finished machine
\* answers with a learn of the learned value and does not change; any other
\* prepare is not answered and changes nothing.
C26_PrepareSetsPromise ==
  [][\A from \in MachinePeers :
       Reads(from, "prepare_op") =>
         OnPrepare(Arrived(from), Arrived(from).proposal)]_vars

\* C26: as above, but the promise becomes b only when b is above it: a
\* no_op prepare at or below the promise of a machine that has accepted a
\* no_op is answered and leaves the promise as it is.
C26_OnPrepare ==
  [][\A from \in MachinePeers :
       Reads(from, "prepare_op") =>
         OnPrepare(Arrived(from),
                   IF gt_ballot(Arrived(from).proposal,
                                MachineOf(Arrived(from)).acceptor.promise)
                   THEN Arrived(from).proposal
                   ELSE MachineOf(Arrived(from)).acceptor.promise)]_vars

\* the node has accepted a no_op, and has answered a no_op prepare whose
\* ballot is below its promise with ack_prepare
C26_Witness ==
  /\ accepted_noop(get_cache(pax[MachineNode], PaxosExecuted))
  /\ ~finished(get_cache(pax[MachineNode], PaxosExecuted))
  /\ \E c \in Chans : \E i \in 1 .. Len(net[c]) :
       /\ net[c][i].from = MachineNode
       /\ net[c][i].op = "ack_prepare_op"
       /\ net[c][i].msg_type = "no_op"
       /\ gt_ballot(get_cache(pax[MachineNode],
                              PaxosExecuted).acceptor.promise,
                    net[c][i].reply_to)

\* r acknowledges the accept m
AckAcceptOf(r, m) ==
  /\ r.op \in {"ack_accept_op", "multi_ack_accept_op"}
  /\ r.synode = m.synode
  /\ r.proposal = m.proposal
  /\ r.reply_to = m.reply_to

\* the accept m is taken: the promise is not above its ballot, or it is a
\* no_op for a machine that has accepted a no_op
AcceptTaken(p, m) ==
  ~gt_ballot(p.acceptor.promise, m.proposal) \/ noop_match(p, m)

\* what the acceptor does with the accept m
OnAccept(m) ==
  /\ IF finished(MachineOf(m))
     THEN /\ Roles(MachineAfter(m)) = Roles(MachineOf(m))
          /\ Len(RepliesTo(m)) = 1
          /\ LearnOf(RepliesTo(m)[1], MachineOf(m), m)
     ELSE IF AcceptTaken(MachineOf(m), m)
          THEN /\ Roles(MachineAfter(m)) =
                    Roles([MachineOf(m) EXCEPT !.acceptor.msg = m])
               /\ Len(RepliesTo(m)) = 1
               /\ AckAcceptOf(RepliesTo(m)[1], m)
          ELSE /\ Roles(MachineAfter(m)) = Roles(MachineOf(m))
               /\ RepliesTo(m) = << >>
  /\ ( /\ gt_ballot(MachineOf(m).acceptor.promise, m.proposal)
       /\ accepted(MachineOf(m))
       /\ MachineOf(m).acceptor.msg.msg_type # "no_op" )
     => MachineAfter(m).acceptor.msg = MachineOf(m).acceptor.msg

\* C27: an accept with ballot b for a finished machine is answered with a
\* learn of the learned value and changes nothing; for a machine that is
\* not finished, with the promise at or below b or a no_op accept for an
\* accepted no_op, the accept message becomes acceptor.msg and ack_accept or
\* multi_ack_accept is sent back; any other accept is not answered and
\* leaves acceptor.msg alone.  An accept with a ballot below the promise
\* never replaces an accepted value that is not a no_op.
C27_OnAccept ==
  [][\A from \in MachinePeers :
       Reads(from, "accept_op") => OnAccept(Arrived(from))]_vars

\* the node has taken a no_op accept whose ballot is below its promise and
\* acknowledged it
C27_Witness ==
  LET p == get_cache(pax[MachineNode], PaxosExecuted)
  IN /\ ~finished(p)
     /\ p.acceptor.msg.op = "accept_op"
     /\ gt_ballot(p.acceptor.promise, p.acceptor.msg.proposal)
     /\ \E c \in Chans : \E i \in 1 .. Len(net[c]) :
          /\ net[c][i].from = MachineNode
          /\ net[c][i].op \in {"ack_accept_op", "multi_ack_accept_op"}
          /\ net[c][i].proposal = p.acceptor.msg.proposal

\* the node has sent a read_op for the synode of m in this step
ReadSentFor(m) ==
  \E c \in Chans : \E i \in 1 .. Len(net'[c]) :
    /\ net'[c][i].op = "read_op"
    /\ net'[c][i].synode = m.synode

\* machine p holds an accepted message with the ballot of the proposal of m
HoldsAccepted(p, m) ==
  /\ p.acceptor.msg.op # "null"
  /\ eq_ballot(p.acceptor.msg.proposal, m.proposal)

\* what a tiny_learn m that is not a no_op does: the receiver learns the
\* message it has accepted, or asks for the value
OnTinyLearn(m) ==
  IF HoldsAccepted(MachineOf(m), m)
  THEN /\ finished(MachineAfter(m))
       /\ MachineAfter(m).proposer = MachineOf(m).proposer
       /\ MachineAfter(m).acceptor.promise = MachineOf(m).acceptor.promise
       /\ ~finished(MachineOf(m)) =>
            /\ MachineAfter(m).learner.msg =
                 [MachineOf(m).acceptor.msg EXCEPT !.op = "learn_op"]
            /\ MachineAfter(m).acceptor.msg = MachineAfter(m).learner.msg
       /\ finished(MachineOf(m)) =>
            /\ MachineAfter(m).learner.msg.msg_type =
                 MachineOf(m).learner.msg.msg_type
            /\ MachineAfter(m).learner.msg.a = MachineOf(m).learner.msg.a
            /\ MachineAfter(m).learner.msg.proposal =
                 MachineOf(m).learner.msg.proposal
       /\ NothingSent
  ELSE /\ Roles(MachineAfter(m)) = Roles(MachineOf(m))
       /\ ReadSentFor(m)

\* what a learn of no_op does, sent as op: a machine that is not finished
\* learns the no_op of the message, a finished machine stays as it is, and
\* max_synode is not left below the synode of the message
OnLearnNoOp(m) ==
  /\ IF finished(MachineOf(m))
     THEN Roles(MachineAfter(m)) = Roles(MachineOf(m))
     ELSE /\ finished(MachineAfter(m))
          /\ MachineAfter(m).learner.msg = m
          /\ MachineAfter(m).acceptor.msg = m
          /\ MachineAfter(m).acceptor.promise = MachineOf(m).acceptor.promise
          /\ MachineAfter(m).proposer = MachineOf(m).proposer
  /\ max_synode'[MachineNode] =
       IF synode_gt(m.synode, max_synode[MachineNode])
       THEN m.synode ELSE max_synode[MachineNode]
  /\ NothingSent

\* C30: a tiny_learn that is not a no_op makes the receiver learn only when
\* it holds an accepted message with the ballot of the tiny_learn, and what
\* it learns is that message; otherwise the machine stays as it is and a
\* read_op for the synode is sent.  A tiny_learn of no_op does what a learn
\* of no_op does.
C30_TinyLearn ==
  [][\A from \in MachinePeers :
       /\ Reads(from, "tiny_learn_op") =>
            IF Arrived(from).msg_type = "no_op"
            THEN OnLearnNoOp(Arrived(from)) ELSE OnTinyLearn(Arrived(from))
       /\ (Reads(from, "learn_op") /\ Arrived(from).msg_type = "no_op") =>
            OnLearnNoOp(Arrived(from))
    ]_vars

\* the node holds an accepted message, and has asked for the value after a
\* tiny_learn with another ballot
C30_Witness ==
  LET p == get_cache(pax[MachineNode], PaxosExecuted)
  IN /\ accepted(p)
     /\ ~finished(p)
     /\ \E c \in Chans : \E i \in 1 .. Len(net[c]) :
          /\ net[c][i].from = MachineNode
          /\ net[c][i].op = "read_op"
          /\ net[c][i].synode = PaxosExecuted

(* ------------------------------------------------------------------ *)
(* The proposer of one synode: a client hands the node one message,    *)
(* the node proposes it in its own slot and the peers answer           *)
(* ------------------------------------------------------------------ *)

\* highest ballot count of a round the proposer starts after a timeout
MaxProposerBallot == 2

\* the synode the node proposes in
ProposerSynode == Synode(PaxosExecuted.msgno, MachineNode)

\* the machine of that synode
ProposerMachine == get_cache(pax[MachineNode], ProposerSynode)

\* the nodes of the configuration a client forces: the last node of the
\* site is left out
ForcedNodes == << PaxosNodes[1], PaxosNodes[2] >>

\* what the client hands the node: a payload that needs a majority, one
\* that needs all nodes, or the command that forces a configuration
ProposerApps ==
  { [AppData("app_type", ClientId(MachineNode, 1), null_synode, << >>, 0)
       EXCEPT !.consensus = c] : c \in {"cons_majority", "cons_all"} }
    \cup
  { WithGroup(AppData("force_config_type", ClientId(MachineNode, 1),
                      null_synode, ForcedNodes, 0), 0) }

\* the ballots of the rounds the proposer has started, from count lowest
\* on: a round that is not forced has count 0 when it is the first and one
\* more than the round before when it follows a timeout
SentBallots(lowest) ==
  IF ProposerMachine.enforcer # 0 THEN {ProposerMachine.proposer.bal}
  ELSE { Ballot(cnt, MachineNode) :
           cnt \in lowest .. ProposerMachine.proposer.bal.cnt }

\* the ballots the proposer has sent a prepare for, and those it has sent
\* an accept for: the first round that is not forced sends its accept at
\* once, any other round when check_propose sets sent_prop
PreparedBallots == { b \in SentBallots(1) : b.cnt >= 1 }
ProposedBallots ==
  { b \in SentBallots(0) :
      b.cnt = 0 \/ ~gt_ballot(b, ProposerMachine.proposer.sent_prop) }

\* the answers of peer from: to a prepare with nothing accepted, to a
\* prepare with the no_op of a peer accepted, and to an accept; an answer
\* is a copy of what it answers and carries its force_delivery
ProposerAcks(from) ==
  { PaxMsg(from, MachineNode, "ack_prepare_empty_op", ProposerSynode, b, b,
           "normal", NoApp, ProposerMachine.force_delivery) :
      b \in PreparedBallots }
    \cup
  { PaxMsg(from, MachineNode, "ack_prepare_op", ProposerSynode,
           Ballot(cnt, k), b, "no_op", NoApp,
           ProposerMachine.force_delivery) :
      cnt \in 1 .. MaxProposerBallot, k \in MachinePeers,
      b \in PreparedBallots }
    \cup
  { PaxMsg(from, MachineNode, "ack_accept_op", ProposerSynode, b, b,
           "normal", NoApp, ProposerMachine.force_delivery) :
      b \in ProposedBallots }

\* a client hands the node the payload or command a
ProposerClient(a) ==
  /\ Idle
  /\ clients[MachineNode] = 0
  /\ clients' = [clients EXCEPT ![MachineNode] = 1]
  /\ LET e == Engine(MachineNode)
     IN Step(dispatch_op(e, get_site_def(e.sd),
                         [ClientPaxMsg(a) EXCEPT !.to = MachineNode]), {})
  /\ UNCHANGED fills

\* the wait of the proposer on its machine has timed out
ProposerRetry ==
  /\ prop[MachineNode].pc = "wait_rv"
  /\ Idle
  /\ ~finished(get_cache(pax[MachineNode], prop[MachineNode].msgno))
  /\ NextBallot(get_cache(pax[MachineNode], prop[MachineNode].msgno))
       <= MaxProposerBallot
  /\ Step(proposer_wakeup(Engine(MachineNode), TRUE), {})
  /\ UNCHANGED << clients, fills >>

NextProposing ==
  \/ \E a \in ProposerApps : ProposerClient(a)
  \/ ProposerGet(MachineNode)
  \/ /\ prop[MachineNode].pc = "wait_rv"
     /\ \E from \in MachinePeers :
          \E m \in ProposerAcks(from) : PeerSend(MachineNode, m)
  \/ \E from \in MachinePeers : Receive(MachineNode, from)
  \/ ProposerRetry
  \/ ProposerLearned(MachineNode)

SpecProposing == InitMachine /\ [][NextProposing]_vars

\* the node has put a message with operation op for the synode it proposes
\* in on its way to a peer in this step, a step that none of the messages
\* the node has sent to itself was waiting for
SentToPeers(op) ==
  \E c \in Chans :
    /\ net[Local(MachineNode)] = << >>
    /\ c[1] = MachineNode
    /\ c[2] # MachineNode
    /\ \E i \in Len(net[c]) + 1 .. Len(net'[c]) :
         /\ net'[c][i].op = op
         /\ net'[c][i].synode = ProposerSynode

\* the site of the synode the node proposes in
ProposerSite == find_site_def(site_defs[MachineNode], ProposerSynode)

\* the majority rule for the node set S of machine p: the nodes of S with a
\* number below the node count of the site are counted, and there must be
\* as many as forced_config has nodes when the machine or its proposal is
\* forced, as many as the site has nodes when the payload of the proposal
\* says cons_all, and more than half of the nodes of the site otherwise
MajorityRule(S, p) ==
  LET N == Len(ProposerSite.nodes)
      count == Cardinality({ i \in S : i >= 0 /\ i < N })
  IN IF p.force_delivery # 0 \/ p.proposer.msg.force_delivery # 0
     THEN count = Len(lifecycle[MachineNode].forced_config.nodes)
     ELSE IF /\ p.proposer.msg.a.c_t # "none"
             /\ p.proposer.msg.a.consensus = "cons_all"
          THEN count = N
          ELSE count > N \div 2

\* prep_majority and prop_majority are the majority rule for prep_nodeset
\* and prop_nodeset
MajorityIsTheRule ==
  /\ prep_majority(lifecycle[MachineNode].forced_config, ProposerSite,
                   ProposerMachine)
       <=> MajorityRule(ProposerMachine.proposer.prep_nodeset,
                        ProposerMachine)
  /\ prop_majority(lifecycle[MachineNode].forced_config, ProposerSite,
                   ProposerMachine)
       <=> MajorityRule(ProposerMachine.proposer.prop_nodeset,
                        ProposerMachine)

\* a learn is sent only when the rule holds for prop_nodeset
LearnNeedsMajority ==
  (SentToPeers("tiny_learn_op") \/ SentToPeers("learn_op")) =>
    MajorityRule(ProposerMachine.proposer.prop_nodeset, ProposerMachine)'

\* C24 as stated: majority is the rule above, and an accept is sent only
\* when the rule holds for prep_nodeset and a learn only when it holds for
\* prop_nodeset.
C24_MajorityBeforeEveryAccept ==
  [][/\ MajorityIsTheRule
     /\ SentToPeers("accept_op") =>
          MajorityRule(ProposerMachine.proposer.prep_nodeset,
                       ProposerMachine)'
     /\ LearnNeedsMajority
    ]_vars

\* C24: majority is the rule above; the accept of a round that has sent a
\* prepare is sent only when the rule holds for prep_nodeset, while the
\* two-phase push, whose ballot count is 0, sends its accept without a
\* prepare; a learn is sent only when the rule holds for prop_nodeset.
C24_Majority ==
  [][/\ MajorityIsTheRule
     /\ SentToPeers("accept_op") =>
          \/ ProposerMachine.proposer.bal.cnt' = 0
          \/ MajorityRule(ProposerMachine.proposer.prep_nodeset,
                          ProposerMachine)'
     /\ LearnNeedsMajority
    ]_vars

\* a payload that needs all nodes has been proposed in a round with a
\* prepare, all three nodes have answered the accept and the learn is sent
C24_Witness ==
  /\ IS_CONS_ALL(ProposerMachine)
  /\ ProposerMachine.proposer.bal.cnt >= 1
  /\ ProposerMachine.proposer.sent_prop = ProposerMachine.proposer.bal
  /\ ProposerMachine.proposer.sent_learn = ProposerMachine.proposer.bal
  /\ ProposerMachine.proposer.prop_nodeset = {0, 1, 2}

\* the machine or its proposal is forced
Forced(p) == p.force_delivery # 0 \/ p.proposer.msg.force_delivery # 0

\* the numbers the nodes of forced_config have in the site
ForcedMembers ==
  { xcom_find_node_index(ProposerSite.nodes,
                         lifecycle[MachineNode].forced_config.nodes[i]) :
      i \in 1 .. Len(lifecycle[MachineNode].forced_config.nodes) }

\* C25: while a configuration is forced, the answer of a node that is not
\* in forced_config is not counted in prep_nodeset or prop_nodeset, and the
\* accept and the learn of a forced round are sent only when every node of
\* forced_config has answered.
C25_ForcedRoundCountsForcedConfigOnly ==
  [][/\ \A from \in MachinePeers : \A op \in AckOps :
          ( /\ Forced(ProposerMachine)
            /\ from \notin ForcedMembers
            /\ Reads(from, op) )
          => /\ ProposerMachine.proposer.prep_nodeset'
                  = ProposerMachine.proposer.prep_nodeset
             /\ ProposerMachine.proposer.prop_nodeset'
                  = ProposerMachine.proposer.prop_nodeset
     /\ (Forced(ProposerMachine)' /\ SentToPeers("accept_op")) =>
          ForcedMembers' \subseteq ProposerMachine.proposer.prep_nodeset'
     /\ ( /\ Forced(ProposerMachine)'
          /\ SentToPeers("tiny_learn_op") \/ SentToPeers("learn_op") ) =>
          ForcedMembers' \subseteq ProposerMachine.proposer.prop_nodeset'
    ]_vars

(* ------------------------------------------------------------------ *)
(* The answers to a prepare: the proposer of one synode while a peer   *)
(* prepares a no_op for the same synode                                *)
(* ------------------------------------------------------------------ *)

\* highest ballot count of a round the proposer starts after a timeout
MaxAdoptingBallot == 3

\* the ballot count of the prepare of a peer
PeerPrepareCnt == 2

\* what peer from sends: the answers to a prepare, with nothing accepted
\* or with the no_op of the first round of a peer accepted, the answer to
\* an accept, and its own prepare of a no_op
AdoptingMsgs(from) ==
  { PaxMsg(from, MachineNode, "ack_prepare_empty_op", ProposerSynode, b, b,
           "normal", NoApp, ProposerMachine.force_delivery) :
      b \in PreparedBallots }
    \cup
  { PaxMsg(from, MachineNode, "ack_prepare_op", ProposerSynode,
           Ballot(1, k), b, "no_op", NoApp,
           ProposerMachine.force_delivery) :
      k \in MachinePeers, b \in PreparedBallots }
    \cup
  { PaxMsg(from, MachineNode, "ack_accept_op", ProposerSynode, b, b,
           "normal", NoApp, ProposerMachine.force_delivery) :
      b \in ProposedBallots }
    \cup
  { PaxMsg(from, MachineNode, "prepare_op", ProposerSynode,
           Ballot(PeerPrepareCnt, from), Ballot(PeerPrepareCnt, from),
           "no_op", NoApp, 0) }

\* the wait of the proposer on its machine has timed out
AdoptingRetry ==
  /\ prop[MachineNode].pc = "wait_rv"
  /\ Idle
  /\ ~finished(get_cache(pax[MachineNode], prop[MachineNode].msgno))
  /\ NextBallot(get_cache(pax[MachineNode], prop[MachineNode].msgno))
       <= MaxAdoptingBallot
  /\ Step(proposer_wakeup(Engine(MachineNode), TRUE), {})
  /\ UNCHANGED << clients, fills >>

\* what the client hands the node: a payload, or the command that forces
\* a configuration
AdoptingApps ==
  { a \in ProposerApps : a.c_t = "app_type" => a.consensus = "cons_majority" }

NextAdopting ==
  \/ \E a \in AdoptingApps : ProposerClient(a)
  \/ ProposerGet(MachineNode)
  \/ /\ prop[MachineNode].pc = "wait_rv"
     /\ \E from \in MachinePeers :
          \E m \in AdoptingMsgs(from) : PeerSend(MachineNode, m)
  \/ \E from \in MachinePeers : Receive(MachineNode, from)
  \/ AdoptingRetry
  \/ ProposerLearned(MachineNode)

SpecAdopting == InitMachine /\ [][NextAdopting]_vars

\* the operations of the answers to a prepare
AckPrepareOps == {"ack_prepare_op", "ack_prepare_empty_op"}

\* the value a message carries: its type and its payload, whatever synode
\* the payload is branded with
ValueOf(m) == << m.msg_type, [m.a EXCEPT !.app_key = null_synode] >>

\* the value the client has handed the proposer
OwnValue ==
  << "normal", [prop[MachineNode].client_msg EXCEPT !.app_key = null_synode] >>

\* the values of the accepts the node has put on their way to the peers in
\* this step
AcceptedValuesSent ==
  { ValueOf(net'[c][i]) :
      c \in { d \in Chans : d[1] = MachineNode /\ d[2] # MachineNode
                            /\ Len(net'[d]) > Len(net[d])
                            /\ net'[d][Len(net'[d])].op = "accept_op" },
      i \in {1} }

\* the answer m to a prepare is counted: the machine is not finished, the
\* sender is a node and the answer is to the ballot of the proposer
CountedAckPrepare(m) ==
  /\ ~finished(ProposerMachine)
  /\ m.from # VOID_NODE_NO
  /\ eq_ballot(ProposerMachine.proposer.bal, m.reply_to)

\* an answer that is counted sets the bit of its sender in prep_nodeset;
\* one that is not leaves the machine as it is and sends no accept
OnlyCountedAcksSetBits ==
  \A from \in MachinePeers : \A op \in AckPrepareOps :
    Reads(from, op) =>
      IF CountedAckPrepare(Arrived(from))
      THEN ProposerMachine.proposer.prep_nodeset'
             = ProposerMachine.proposer.prep_nodeset \cup {from}
      ELSE /\ Roles(ProposerMachine)' = Roles(ProposerMachine)
           /\ ~SentToPeers("accept_op")

\* the accept of a round that has sent a prepare is sent by the answer that
\* is counted, is to a ballot above sent_prop and makes the majority rule
\* hold for prep_nodeset, and by nothing else; it sets sent_prop to the
\* ballot, so it is sent once for a ballot
AcceptSentOnceAtMajority ==
  /\ \A from \in MachinePeers : \A op \in AckPrepareOps :
       Reads(from, op) =>
         ( SentToPeers("accept_op") <=>
             /\ CountedAckPrepare(Arrived(from))
             /\ gt_ballot(Arrived(from).reply_to,
                          ProposerMachine.proposer.sent_prop)
             /\ MajorityRule(ProposerMachine.proposer.prep_nodeset,
                             ProposerMachine)' )
  /\ (SentToPeers("accept_op") /\ ProposerMachine.proposer.bal.cnt' >= 1) =>
       /\ \E from \in MachinePeers : \E op \in AckPrepareOps :
            Reads(from, op)
       /\ ProposerMachine.proposer.bal' = ProposerMachine.proposer.bal
       /\ gt_ballot(ProposerMachine.proposer.bal,
                    ProposerMachine.proposer.sent_prop)
       /\ ProposerMachine.proposer.sent_prop' = ProposerMachine.proposer.bal

\* the accepted proposals that the answers counted for the ballot report
\* when m is the first answer of a peer that is counted: the one the node
\* itself has accepted, when its own answer is counted, and the one of m
ReportedWith(m) ==
  (IF /\ MachineNode \in ProposerMachine.proposer.prep_nodeset
      /\ ProposerMachine.acceptor.msg.op # "null"
   THEN {ProposerMachine.acceptor.msg} ELSE {})
    \cup
  (IF m.op = "ack_prepare_op" THEN {m} ELSE {})

\* the value the claim gives the accept then: that of the report with the
\* highest ballot, the value of the client when there is no report
ValueToAccept(m) ==
  IF ReportedWith(m) = {} THEN OwnValue
  ELSE ValueOf(CHOOSE r \in ReportedWith(m) :
                 \A q \in ReportedWith(m) :
                   ~gt_ballot(q.proposal, r.proposal))

\* C28 as stated: only counted answers set bits; the accept carries the
\* value of the highest accepted proposal the answers counted for its
\* ballot have reported and the value of the client when none has
\* reported one; the accept is sent once, when the majority is reached.
C28_AcceptCarriesReportedElseOwn ==
  [][/\ OnlyCountedAcksSetBits
     /\ \A from \in MachinePeers : \A op \in AckPrepareOps :
          ( /\ Reads(from, op)
            /\ CountedAckPrepare(Arrived(from))
            /\ ProposerMachine.proposer.prep_nodeset \subseteq {MachineNode}
            /\ SentToPeers("accept_op") )
          => AcceptedValuesSent = {ValueToAccept(Arrived(from))}
     /\ AcceptSentOnceAtMajority
    ]_vars

\* C28: only counted answers set bits; a counted answer that reports an
\* accepted proposal with a ballot above the ballot of the message the
\* proposer holds replaces that message, which a timeout does not reset,
\* and the accept carries the value of the message the proposer then
\* holds; the accept is sent once, when the majority is reached.
C28_OnAckPrepare ==
  [][/\ OnlyCountedAcksSetBits
     /\ \A from \in MachinePeers : \A op \in AckPrepareOps :
          ( /\ Reads(from, op)
            /\ CountedAckPrepare(Arrived(from)) )
          => /\ ValueOf(ProposerMachine.proposer.msg)' =
                  IF /\ op = "ack_prepare_op"
                     /\ gt_ballot(Arrived(from).proposal,
                                  ProposerMachine.proposer.msg.proposal)
                  THEN ValueOf(Arrived(from))
                  ELSE ValueOf(ProposerMachine.proposer.msg)
             /\ SentToPeers("accept_op") =>
                  AcceptedValuesSent = {ValueOf(ProposerMachine.proposer.msg)'}
     /\ AcceptSentOnceAtMajority
    ]_vars

\* the proposer holds the payload of a client, has adopted the no_op a
\* peer reported and has sent it in the accept of the round it started
\* after the prepare of a peer, when it and one peer had answered
C28_Witness ==
  /\ prop[MachineNode].client_msg.c_t = "app_type"
  /\ ProposerMachine.proposer.bal.cnt > PeerPrepareCnt
  /\ ProposerMachine.proposer.sent_prop = ProposerMachine.proposer.bal
  /\ ProposerMachine.proposer.msg.msg_type = "no_op"
  /\ ProposerMachine.proposer.msg.op = "accept_op"
  /\ ProposerMachine.proposer.prep_nodeset = {0, MachineNode}

(* ------------------------------------------------------------------ *)
(* The answers to an accept                                            *)
(* ------------------------------------------------------------------ *)

\* the node has put a learn for the synode it proposes in on its way to a
\* peer in this step
LearnSent == SentToPeers("tiny_learn_op") \/ SentToPeers("learn_op")

\* the answer m to an accept is counted: the node is in the site, the
\* sender is a node and the answer is to the ballot of the proposer
CountedAckAccept(m) ==
  /\ get_nodeno(ProposerSite) # VOID_NODE_NO
  /\ m.from # VOID_NODE_NO
  /\ eq_ballot(ProposerMachine.proposer.bal, m.reply_to)

SentFor(s, op) ==
  \E c \in Chans :
    /\ c[1] = MachineNode
    /\ c[2] # MachineNode
    /\ \E i \in Len(net[c]) + 1 .. Len(net'[c]) :
         /\ net'[c][i].op = op
         /\ net'[c][i].synode = s

\* the synode the proposer task works on after the step, its machine
\* before the step and after
PushedSynode == prop'[MachineNode].msgno
PushedBefore == get_cache(pax[MachineNode], PushedSynode)
PushedAfter == get_cache(pax'[MachineNode], PushedSynode)

\* the proposer task starts a round in this step: it takes a new ballot
\* and sends the prepare or the accept of that ballot
Pushes ==
  /\ prop'[MachineNode].pc = "wait_rv"
  /\ PushedAfter.proposer.bal # PushedBefore.proposer.bal
  /\ SentFor(PushedSynode, "prepare_op") \/ SentFor(PushedSynode, "accept_op")

\* the round is a retry: the task was waiting on this machine
Retries ==
  /\ prop[MachineNode].pc = "wait_rv"
  /\ prop[MachineNode].msgno = PushedSynode

\* the round starts with phase 2: the accept of ballot count 0 and no
\* prepare
StartsWithAccept ==
  /\ SentFor(PushedSynode, "accept_op")
  /\ ~SentFor(PushedSynode, "prepare_op")
  /\ PushedAfter.proposer.bal = Ballot(0, MachineNode)

\* the round starts with phase 1: the prepare of the ballot one above the
\* ballot of the proposer and the promise of the acceptor, and no accept
StartsWithPrepare ==
  /\ SentFor(PushedSynode, "prepare_op")
  /\ ~SentFor(PushedSynode, "accept_op")
  /\ PushedAfter.proposer.bal =
       Ballot(Max(PushedBefore.proposer.bal.cnt,
                  PushedBefore.acceptor.promise.cnt) + 1, MachineNode)

\* the test of proposer_task for the two-phase push
MayStartWithAccept ==
  /\ threephase = 0
  /\ PushedBefore.force_delivery = 0
  /\ PushedBefore.acceptor.promise.cnt = 0

\* C31: a round starts with phase 2 only when it is not a retry, threephase
\* is off, the machine is not force_delivery and its promise count is 0;
\* every other round, and every retry, starts with phase 1 at ballot count
\* max(proposer.bal.cnt, acceptor.promise.cnt) + 1; the ballot of a round
\* is above the ballot the proposer had on the machine.
C31_PhaseSelection ==
  [][Pushes =>
       /\ IF ~Retries /\ MayStartWithAccept
          THEN StartsWithAccept ELSE StartsWithPrepare
       /\ gt_ballot(PushedAfter.proposer.bal, PushedBefore.proposer.bal)
    ]_vars

\* the task has retried after the prepare of a peer was promised: the
\* prepare of the ballot above that promise is on its way and no accept of
\* that ballot is sent yet
C31_Witness ==
  /\ ProposerMachine.proposer.bal = Ballot(PeerPrepareCnt + 1, MachineNode)
  /\ gt_ballot(ProposerMachine.proposer.bal,
               ProposerMachine.proposer.sent_prop)
  /\ \E c \in Chans : \E i \in 1 .. Len(net[c]) :
       /\ c[1] = MachineNode
       /\ net[c][i].op = "prepare_op"
       /\ net[c][i].proposal = ProposerMachine.proposer.bal

(* ------------------------------------------------------------------ *)
(* The end of the work of the proposer task on a batch                 *)
(* ------------------------------------------------------------------ *)

\* the machine the proposer task waits on
WaitedMachine == get_cache(pax[MachineNode], prop[MachineNode].msgno)

\* the value of the slot is learned and is the batch of the task: it has a
\* payload with the unique id of the batch
LearnedMine ==
  /\ finished(WaitedMachine)
  /\ WaitedMachine.learner.msg.a.c_t # "none"
  /\ WaitedMachine.learner.msg.a.id = prop[MachineNode].client_msg.id

\* the task is done with a batch in this step: it is idle after it, and
\* was at work on the batch or has taken it from the queue in the step
DoneWithBatch ==
  /\ prop'[MachineNode].pc = "idle"
  /\ \/ prop[MachineNode].pc # "idle"
     \/ Len(prop_input_queue'[MachineNode])
          < Len(prop_input_queue[MachineNode])

\* the site of the slot the task has come to has no local node: the batch
\* is handed back with delivery_failure
NoLocalNode ==
  LET site == find_site_def(site_defs[MachineNode], prop'[MachineNode].msgno)
  IN site.null \/ get_nodeno(site) = VOID_NODE_NO

\* the task proposes its batch again in a slot after the one it waited
\* on, which no one had started
ProposesAgain ==
  LET s == prop'[MachineNode].msgno
      q == get_cache(pax'[MachineNode], s)
  IN /\ prop'[MachineNode].pc \in {"wait_rv", "too_far", "wait_for_cache"}
     /\ prop'[MachineNode].client_msg = prop[MachineNode].client_msg
     /\ synode_gt(s, prop[MachineNode].msgno)
     /\ prop'[MachineNode].pc = "wait_rv" =>
          /\ ~is_busy(pax[MachineNode], s)
          /\ q.lock = 1
          /\ q.proposer.msg.a.id = prop[MachineNode].client_msg.id
          /\ q.proposer.msg.a.c_t = prop[MachineNode].client_msg.c_t
          /\ SentFor(s, "accept_op") \/ SentFor(s, "prepare_op")

SweepNode == InitNodes[2]
\* length of the run of this specification, in message numbers
SweepRun == 5

\* a learn_op for executed_msg arrives: no_op or the removal of nodes
SweepLearn(n) ==
  /\ executed_msg[n].msgno <= SweepRun
  /\ CfgLearn(n)
  /\ pax'[n][executed_msg[n]].learner.msg.a.c_t
       \in {"none", "remove_node_type"}

\* the learn_op of a peer for the slot of the first node in the message
\* number after executed_msg: dispatch_op raises max_synode with it
SweepAhead(n) ==
  /\ xc[n].state = "x_fetch"
  /\ executed_msg[n].msgno < SweepRun
  /\ Idle
  /\ \E s \in {Synode(executed_msg[n].msgno + 1, 0)} :
       /\ synode_gt(s, max_synode[n])
       /\ Step(acceptor_learner_task(
                 Engine(n),
                 PaxMsg(0, n, "learn_op", s, Ballot(0, 0), Ballot(0, 0),
                        NoOpValue.msg_type, NoOpValue.a, 0)), {})
  /\ UNCHANGED << clients, fills >>

\* the peers read what node n has sent them
PeersRead(n) ==
  /\ \E c \in Chans : c[1] = n /\ c[2] # n /\ net[c] # << >>
  /\ net' = [c \in Chans |-> IF c[1] = n /\ c[2] # n THEN << >> ELSE net[c]]
  /\ UNCHANGED << site_defs, executed_msg, delivered_msg, max_synode,
                  current_message, xc, delay_fifo, pax, app_log, installs,
                  lsn_log, prop_input_queue, prop, participate_paxos,
                  all_nodes_valid, client_boot_done, cache_full, sweep_find,
                  clients, lifecycle, lost, fills >>

NextSweep ==
  \/ SweepLearn(SweepNode)
  \/ SweepAhead(SweepNode)
  \/ ExecutorRun(SweepNode)
  \/ Sweeper(SweepNode)
  \/ PeersRead(SweepNode)

SpecSweep == InitEngine /\ [][NextSweep]_vars

\* the sweeper of the node skips synode s in this step: it marks the
\* machine with skip_op and broadcasts skip_op for it
SweeperSkips(s) ==
  /\ Sweeper(SweepNode)
  /\ get_cache(pax'[SweepNode], s).op = "skip_op"
  /\ get_cache(pax[SweepNode], s).op # "skip_op"

\* the machine of synode s is idle
SweepIdle(s) ==
  LET pm == get_cache(pax[SweepNode], s)
  IN /\ pm.acceptor.promise.cnt = 0
     /\ pm.acceptor.msg.op = "null"
     /\ ~finished(pm)
     /\ pm.lock = 0
     /\ pm.force_delivery = 0
     /\ pm.proposer.msg.a.c_t = "none"

SweptSynodes ==
  { Synode(k, i) : k \in 1 .. SweepRun + EVENT_HORIZON_MIN + 2, i \in 0 .. MaxNodes - 1 }

\* C33: the sweeper skips only synods whose node field is the node number
\* of the local node, below max_synode and not too far, and only when the
\* local machine of the synod is idle: no promise, nothing accepted, not
\* finished, not locked, no force_delivery, and no client value installed
\* by a local proposer.
C33_SweeperSkipsOwnIdle ==
  [][\A s \in SweptSynodes :
       SweeperSkips(s) =>
         /\ s.node = get_nodeno(find_site_def(site_defs[SweepNode], s))
         /\ synode_lt(s, max_synode[SweepNode])
         /\ ~too_far(SweepNode, s)
         /\ SweepIdle(s)
    ]_vars

(* ------------------------------------------------------------------ *)
(* The skip of the own slot in handle_accept                           *)
(* ------------------------------------------------------------------ *)
\* the slot of node n in the message number of message m
OwnSlotOf(n, m) ==
  Synode(m.synode.msgno, get_nodeno(find_site_def(site_defs[n], m.synode)))

\* node c[2] reads an accept_op from connection c and sends skip_op for
\* its own slot of the same message number
AutoSkips(c) ==
  /\ net[c] # << >>
  /\ Head(net[c]).op = "accept_op"
  /\ c[1] # c[2]
  /\ Deliver(c)
  /\ \E d \in Chans :
       /\ d[1] = c[2]
       /\ d[2] # c[2]
       /\ \E i \in 1 .. Len(net'[d]) :
            /\ net'[d][i].op = "skip_op"
            /\ net'[d][i].synode = OwnSlotOf(c[2], Head(net[c]))
            /\ \A j \in 1 .. Len(net[d]) : net[d][j] # net'[d][i]

\* C34: the skip of the own slot in handle_accept never fires for a local
\* machine that has a promise, an accepted value, or a client value that a
\* local proposer task has installed or is about to install (the task has
\* chosen the slot and waits for its machine).
C34_AutoSkipOnlyUnused ==
  [][\A c \in Chans :
       AutoSkips(c) =>
         LET n == c[2]
             s == OwnSlotOf(n, Head(net[c]))
             pm == get_cache(pax[n], s)
         IN /\ pm.acceptor.promise.cnt = 0
            /\ pm.acceptor.msg.op = "null"
            /\ pm.proposer.msg.a.c_t = "none"
            /\ ~(prop[n].pc # "idle" /\ prop[n].msgno = s)
    ]_vars

(* ------------------------------------------------------------------ *)
(* The threshold of too_far under changes of the event horizon: the    *)
(* executor and the sweeper of one node whose group has set any of the *)
(* event horizons of HorizonStart; the group learns no_op, the         *)
(* addition of a node or a change of the event horizon                 *)
(* ------------------------------------------------------------------ *)
\* length of the run of this specification, in message numbers
HorizonRun == 12
\* the event horizons the group has set before the run
HorizonStart == {EVENT_HORIZON_MIN, EVENT_HORIZON_MIN + 2}
\* the event horizon the commands set
HorizonSet == {EVENT_HORIZON_MIN}

HorizonSite(n, h) == [InitSite(n) EXCEPT !.event_horizon = h]

\* the sites of node n: handle_event_horizon has pushed the clone of the
\* first site when the group has set another event horizon
HorizonSites(n, h) ==
  IF h = EVENT_HORIZON_MIN THEN << InitSite(n) >>
  ELSE << HorizonSite(n, h), InitSite(n) >>

InitHorizon ==
  \E h \in HorizonStart :
    /\ site_defs = [n \in Nodes |-> HorizonSites(n, h)]
    /\ executed_msg = [n \in Nodes |-> InitExecuted(n)]
    /\ delivered_msg = [n \in Nodes |-> InitExecuted(n)]
    /\ max_synode = [n \in Nodes |-> InitExecuted(n)]
    /\ current_message =
         [n \in Nodes |->
            first_free_synode(HorizonSites(n, h), InitExecuted(n))]
    /\ xc = [n \in Nodes |-> InitContext]
    /\ delay_fifo = [n \in Nodes |-> << >>]
    /\ pax = [n \in Nodes |-> << >>]
    /\ app_log = [n \in Nodes |-> << >>]
    /\ installs = [n \in Nodes |-> << >>]
    /\ lsn_log = [n \in Nodes |-> << >>]
    /\ net = NoTraffic
    /\ prop_input_queue = [n \in Nodes |-> << >>]
    /\ prop = [n \in Nodes |-> InitProposer]
    /\ participate_paxos = [n \in Nodes |-> {}]
    /\ all_nodes_valid = [n \in Nodes |-> 0]
    /\ client_boot_done = [n \in Nodes |-> 1]
    /\ cache_full = [n \in Nodes |-> FALSE]
    /\ sweep_find =
         [n \in Nodes |->
            get_sweep_start(HorizonSites(n, h), InitExecuted(n))]
    /\ clients = [n \in Nodes |-> 0]
    /\ lifecycle = [n \in Nodes |-> RunLifecycle(HorizonSite(n, h))]
    /\ lost = 0
    /\ fills = 0

HorizonValues(n, k) ==
  { NoOpValue }
  \cup { Value("normal", a) :
           a \in { x \in {AppData("add_node_type", 0, k, << 2 >>, 0)}
                          \cup { AppData("set_event_horizon_type", 0, k,
                                         << >>, h) : h \in HorizonSet } :
                     /\ k.msgno <= MaxBusy
                     /\ LearnedCount(n, LAMBDA m : is_config(m.a.c_t))
                          < MaxConfigs } }

\* a learn_op for executed_msg arrives: no_op, the addition of node 2 or
\* a change of the event horizon
HorizonLearn(n) ==
  /\ xc[n].state = "x_fetch"
  /\ executed_msg[n].msgno <= HorizonRun
  /\ ~finished(get_cache(pax[n], executed_msg[n]))
  /\ \E v \in HorizonValues(n, executed_msg[n]) :
       LET s == executed_msg[n]
           m == PaxMsg(s.node, n, "learn_op", s, Ballot(0, s.node),
                       Ballot(0, s.node), v.msg_type, v.a, 0)
       IN /\ pax' = [pax EXCEPT ![n] =
                       put_cache(pax[n],
                                 handle_learn(get_cache(pax[n], s), m))]
          /\ max_synode' = [max_synode EXCEPT ![n] =
                              IF synode_gt(s, @) THEN s ELSE @]
  /\ UNCHANGED << site_defs, executed_msg, delivered_msg,
                  current_message, xc, delay_fifo, app_log, installs,
                  lsn_log >>
  /\ UNCHANGED paxos_vars

NextHorizon ==
  \/ HorizonLearn(SweepNode)
  \/ ExecutorRun(SweepNode)
  \/ Sweeper(SweepNode)
  \/ PeersRead(SweepNode)

SpecHorizon == InitHorizon /\ [][NextHorizon]_vars

\* the site of executed_msg, and the sites that start after it and have
\* another event horizon
ActiveSite == find_site_def(site_defs[SweepNode], executed_msg[SweepNode])

PendingHorizons ==
  { i \in 1 .. Len(site_defs[SweepNode]) :
      /\ synode_gt(site_defs[SweepNode][i].start, ActiveSite.start)
      /\ site_defs[SweepNode][i].event_horizon # ActiveSite.event_horizon }

\* the first of them
FirstPendingHorizon ==
  site_defs[SweepNode][
    CHOOSE i \in PendingHorizons :
      \A j \in PendingHorizons :
        ~synode_gt(site_defs[SweepNode][i].start,
                   site_defs[SweepNode][j].start)]

\* the threshold T of the synods that are too far
HorizonThreshold ==
  IF ActiveSite.null
  THEN executed_msg[SweepNode].msgno + EVENT_HORIZON_MIN
  ELSE IF ActiveSite = site_defs[SweepNode][1] \/ PendingHorizons = {}
       THEN executed_msg[SweepNode].msgno + ActiveSite.event_horizon
       ELSE LET a == executed_msg[SweepNode].msgno + ActiveSite.event_horizon
                b == FirstPendingHorizon.start.msgno - 1
                       + FirstPendingHorizon.event_horizon
            IN IF a <= b THEN a ELSE b

HorizonSynodes ==
  { Synode(k, i) : k \in 0 .. HorizonRun + EVENT_HORIZON_MIN + 4,
                   i \in {0, 1} }

\* C35: too_far(s) holds iff s.msgno >= T, where T is executed_msg.msgno
\* plus the event horizon of the active site when that site is the latest
\* or no later site has another event horizon, the minimum of that and
\* start(R).msgno - 1 + the event horizon of R when R is the first later
\* site with another event horizon, and executed_msg.msgno +
\* EVENT_HORIZON_MIN when there is no site.
C35_TooFarThreshold ==
  \A s \in HorizonSynodes :
    too_far(SweepNode, s) <=> s.msgno >= HorizonThreshold

(* ------------------------------------------------------------------ *)
(* Recovery: one node from the start of its process to the run state,  *)
(* the recovery manager and a peer hand it snapshots                   *)
(* ------------------------------------------------------------------ *)
\* message numbers of the boot keys, and of log_start, of the snapshots
RecoverKeys == {1, 2}
RecoverStarts == {3, 4}
\* log_end of a snapshot is at most this far after its log_start
MaxRecoverLog == 1

RecoverSnapshots ==
  { [configs |-> << Site(Synode(b, 0), Synode(b, 0), nl, EVENT_HORIZON_MIN,
                         VOID_NODE_NO) >>,
     log_start |-> Synode(ls, 0),
     log_end |-> Synode(ls + k, 0)] :
      b \in RecoverKeys, ls \in RecoverStarts, k \in 0 .. MaxRecoverLog,
      nl \in {InitNodes, << FsmPeer, 2 >>} }

\* the message a peer sends the snapshot with
RecoverMsg(gcs) ==
  PeerPaxMsg("gcs_snapshot_op", gcs.log_end, "normal")
    @@ [gcs_snap |-> gcs, group_id |-> GroupId]

NextRecover ==
  \/ FsmManager(<< "x_fsm_snapshot_wait", 0 >>)
  \/ \E gcs \in RecoverSnapshots :
       FsmManager(<< "x_fsm_local_snapshot", gcs >>)
  \/ \E gcs \in RecoverSnapshots : FsmSnapshot(RecoverMsg(gcs))
  \/ FsmTimeout
  \/ FsmComplete
  \/ \E c \in Chans : FsmPeerTakes(c)

SpecRecover == InitFsm /\ [][NextRecover]_vars

RecoverState == lifecycle[FsmNode].state

\* the node takes the snapshot gcs of the recovery manager, or of the peer,
\* while it waits for snapshots
TakesLocal(gcs) ==
  /\ RecoverState = "xcom_fsm_snapshot_wait"
  /\ FsmManager(<< "x_fsm_local_snapshot", gcs >>)

TakesPeer(gcs) ==
  /\ RecoverState \in {"xcom_fsm_snapshot_wait", "xcom_fsm_recover_wait"}
  /\ ~synode_eq(lifecycle[FsmNode].start_config, get_highest_boot_key(gcs))
  /\ FsmSnapshot(RecoverMsg(gcs))

\* the order of the snapshots: boot key, then log_start, then log_end
SnapshotGt(a, b) ==
  \/ synode_gt(a[1], b[1])
  \/ /\ a[1] = b[1]
     /\ \/ synode_gt(a[2], b[2])
        \/ a[2] = b[2] /\ synode_gt(a[3], b[3])

\* what is installed
Installed ==
  << get_site_def(site_defs[FsmNode]).boot_key,
     lifecycle[FsmNode].log_start_max, lifecycle[FsmNode].log_end_max >>

NothingInstalled == get_site_def(site_defs[FsmNode]).null

\* the step replaces what is installed
Replaces ==
  \/ site_defs'[FsmNode] # site_defs[FsmNode]
  \/ executed_msg'[FsmNode] # executed_msg[FsmNode]
  \/ lifecycle'[FsmNode].log_start_max # lifecycle[FsmNode].log_start_max
  \/ lifecycle'[FsmNode].log_end_max # lifecycle[FsmNode].log_end_max

\* after the step the snapshot with boot key, log_start and log_end t is
\* installed
InstalledAs(t) ==
  /\ get_site_def(site_defs'[FsmNode]).boot_key = t[1]
  /\ executed_msg'[FsmNode] = incr_synode(site_defs'[FsmNode], t[2])
  /\ max_synode'[FsmNode] = t[3]
  /\ lifecycle'[FsmNode].log_start_max = t[2]
  /\ lifecycle'[FsmNode].log_end_max = t[3]

SnapshotKey(gcs) == << get_highest_boot_key(gcs), gcs.log_start, gcs.log_end >>

\* C36: while the node waits for snapshots, a received snapshot replaces
\* what is installed only if it is strictly greater in the order (highest
\* boot key, log_start, log_end), and a greater one always does, so that
\* what is installed is the greatest snapshot received, with executed_msg
\* = log_start + 1 and max_synode = log_end of that snapshot.
C36_BestSnapshotWins ==
  [][\A gcs \in RecoverSnapshots :
       TakesLocal(gcs) \/ TakesPeer(gcs) =>
         IF NothingInstalled \/ SnapshotGt(SnapshotKey(gcs), Installed)
         THEN InstalledAs(SnapshotKey(gcs))
         ELSE ~Replaces
    ]_vars

\* log_end of the snapshot as the node compares it: set_log_end raises
\* that of a snapshot of a peer to max_synode
ComparedEnd(gcs, peer) ==
  IF peer /\ synode_gt(max_synode[FsmNode], gcs.log_end)
  THEN max_synode[FsmNode] ELSE gcs.log_end

ComparedKey(gcs, peer) ==
  << get_highest_boot_key(gcs), gcs.log_start, ComparedEnd(gcs, peer) >>

\* log_end as handle_x_snapshot installs it: log_start when the node is not
\* a member of the latest site
InstalledKey(gcs, peer) ==
  << get_highest_boot_key(gcs), gcs.log_start,
     IF get_nodeno(get_site_def(site_defs'[FsmNode])) = VOID_NODE_NO
     THEN gcs.log_start ELSE ComparedEnd(gcs, peer) >>

\* C36, amended: log_end of a snapshot of a peer counts as raised to the
\* max_synode of the node, and what is installed as log_end and
\* max_synode is that value, or log_start when the node is not a member
\* of the latest site.
C36_BestComparedSnapshotWins ==
  [][\A gcs \in RecoverSnapshots : \A peer \in BOOLEAN :
       (IF peer THEN TakesPeer(gcs) ELSE TakesLocal(gcs)) =>
         IF \/ NothingInstalled
            \/ SnapshotGt(ComparedKey(gcs, peer), Installed)
         THEN InstalledAs(InstalledKey(gcs, peer))
         ELSE ~Replaces
    ]_vars

\* the node runs after a recovery in which a snapshot of the peer has
\* replaced an older one
C36_Witness ==
  /\ RecoverState = "xcom_fsm_run"
  /\ Len(SelectSeq(site_defs[FsmNode], LAMBDA x : ~x.null)) = 2
  /\ lifecycle[FsmNode].log_start_max.msgno = 4
  /\ executed_msg[FsmNode] = Synode(4, 1)
  /\ max_synode[FsmNode] = lifecycle[FsmNode].log_end_max

(* ------------------------------------------------------------------ *)
(* The ballot of a forcing node: the proposer of one synode, with a    *)
(* client that forces a configuration before or while the node         *)
(* proposes                                                            *)
(* ------------------------------------------------------------------ *)
\* the ballot count force_pax_machine gives a machine it marks as enforcer
ForcedCnt(cnt) == cnt + ((INT32_MAX - Max(cnt, 0)) \div 3)

\* the count after a phase 1 has started from count cnt on machine p
Phase1Cnt(p, cnt) == Max(cnt, p.acceptor.promise.cnt) + 1

\* messages the clients hand the node
MaxForcingClients == 2
\* rounds the proposer starts after a timeout, forced or not
MaxForcingBallot == 1

\* what the k-th client hands the node: a payload or the command that
\* forces a configuration
ForcingApps(k) ==
  { AppData("app_type", ClientId(MachineNode, k), null_synode, << >>, 0),
    WithGroup(AppData("force_config_type", ClientId(MachineNode, k),
                      null_synode, ForcedNodes, 0), 0) }

\* a client hands the node the payload or command a
ForcingClient(a) ==
  /\ Idle
  /\ clients[MachineNode] < MaxForcingClients
  /\ prop_input_queue[MachineNode] = << >>
  /\ clients' = [clients EXCEPT ![MachineNode] = @ + 1]
  /\ LET e == Engine(MachineNode)
     IN Step(dispatch_op(e, get_site_def(e.sd),
                         [ClientPaxMsg(a) EXCEPT !.to = MachineNode]), {})
  /\ UNCHANGED fills

\* the wait of the proposer on its machine has timed out
ForcingRetry ==
  LET p == get_cache(pax[MachineNode], prop[MachineNode].msgno)
  IN /\ prop[MachineNode].pc = "wait_rv"
     /\ Idle
     /\ ~finished(p)
     /\ NextBallot(p) <= MaxForcingBallot
                           + (IF p.enforcer # 0
                              THEN ForcedCnt(MaxForcingBallot) ELSE 0)
     /\ Step(proposer_wakeup(Engine(MachineNode), TRUE), {})
     /\ UNCHANGED << clients, fills >>

NextForcing ==
  \/ \E a \in ForcingApps(clients[MachineNode] + 1) : ForcingClient(a)
  \/ ProposerGet(MachineNode)
  \/ /\ prop[MachineNode].pc = "wait_rv"
     /\ \E from \in MachinePeers :
          \E m \in ProposerAcks(from) : PeerSend(MachineNode, m)
  \/ \E from \in MachinePeers : Receive(MachineNode, from)
  \/ ForcingRetry
  \/ ProposerLearned(MachineNode)

SpecForcing == InitMachine /\ [][NextForcing]_vars

MaxNoopBallot == 1

\* what peer from sends the node: the value learned in the slot of a peer
\* above the node at the first message number, its answers to the prepare and the
\* accept of the no_op the executor has proposed for that synode, and its
\* answer to the accept of the proposer task
NoopMsgs(from) ==
  LET s == executed_msg[MachineNode]
      p == get_cache(pax[MachineNode], s)
      b == p.proposer.bal
      own == get_cache(pax[MachineNode], prop[MachineNode].msgno)
  IN (IF s.msgno = PaxosExecuted.msgno /\ from > MachineNode
      THEN { PeerMsg(from, Synode(s.msgno, from), "learn_op",
                     Ballot(0, from), Ballot(0, from), 0) }
      ELSE {})
       \cup
     (IF b.cnt >= 1 /\ p.proposer.msg.msg_type = "no_op"
      THEN { PaxMsg(from, MachineNode, op, s, b, b, "no_op", NoApp, 0) :
               op \in {"ack_prepare_empty_op", "ack_accept_op"} }
      ELSE {})
       \cup
     (IF prop[MachineNode].pc = "wait_rv"
      THEN { PaxMsg(from, MachineNode, "ack_accept_op", own.synode,
                    own.proposer.bal, own.proposer.bal, "normal", NoApp, 0) }
      ELSE {})

\* executor_task waits in get_xcom_message and its delay has passed: the
\* turn of the loop with wait = 2
NoopFind(n) ==
  /\ xc[n].state = "x_fetch"
  /\ Idle
  /\ Quiet
  /\ ~finished(get_cache(pax[n], executed_msg[n]))
  /\ \E someone \in Nodes \ {n}, iamthegreatest \in BOOLEAN :
       LET e == get_xcom_message([Engine(n) EXCEPT !.someone = someone],
                                 executed_msg[n], 2, FIND_MAX, iamthegreatest)
       IN /\ e.out # NoTraffic
          /\ IF iamthegreatest
             THEN NextBallot(get_cache(pax[n], executed_msg[n]))
                    <= MaxNoopBallot
             ELSE ReadsInFlight < MaxReads
          /\ Step(e, {})
  /\ UNCHANGED << clients, fills >>

\* the node with its proposer task and its executor, the peers answering
\* or not
NextNoop ==
  \/ ClientMsg(MachineNode)
  \/ ProposerGet(MachineNode)
  \/ \E from \in MachinePeers :
       \E m \in NoopMsgs(from) : PeerSend(MachineNode, m)
  \/ \E from \in MachinePeers : Receive(MachineNode, from)
  \/ PeersRead(MachineNode)
  \/ NoopFind(MachineNode)
  \/ ExecutorRun(MachineNode)
  \/ ProposerLearned(MachineNode)

SpecNoop == InitMachine /\ [][NextNoop]_vars

\* the proposer side of machine s of node n changes in this step
ProposerSideChanges(n, s) ==
  LET p == get_cache(pax[n], s)
      q == pax'[n][s]
  IN q.proposer.msg # p.proposer.msg \/ q.proposer.bal # p.proposer.bal

RECURSIVE FsmPath(_, _, _)
FsmPath(e, action, fsmargs) ==
  LET r == state_fp(e, action, fsmargs)
  IN << e >> \o (IF r[2] # 0 THEN FsmPath(r[1], action, fsmargs)
                 ELSE << r[1] >>)

FsmActionNames ==
  {"x_fsm_init", "x_fsm_net_boot", "x_fsm_snapshot", "x_fsm_snapshot_wait",
   "x_fsm_local_snapshot", "x_fsm_timeout", "x_fsm_complete",
   "x_fsm_terminate", "x_fsm_exit", "x_fsm_force_config",
   "x_fsm_need_snapshot"}

\* the arguments an action comes with
FsmArgs(action) ==
  CASE action = "x_fsm_net_boot" -> FsmBootApps
    [] action \in {"x_fsm_snapshot", "x_fsm_local_snapshot"} -> FsmSnapshots
    [] action = "x_fsm_force_config" ->
         { r[1] : r \in { c \in FsmCfgApps : c[1].c_t = "force_config_type" } }
    [] OTHER -> {0}

FsmRestStates ==
  {"xcom_fsm_start", "xcom_fsm_snapshot_wait", "xcom_fsm_recover_wait",
   "xcom_fsm_run"}

\* the state the FSM goes to from state st on action, member telling
\* whether the node is a member of the site it has installed by then
FsmTransition(st, action, member) ==
  CASE st = "xcom_fsm_init" -> "xcom_fsm_start_enter"
    [] st = "xcom_fsm_start_enter" -> "xcom_fsm_start"
    [] st = "xcom_fsm_start" ->
         IF (action = "x_fsm_net_boot" /\ member) \/ action = "x_fsm_snapshot"
         THEN "xcom_fsm_run_enter"
         ELSE IF action = "x_fsm_snapshot_wait"
              THEN "xcom_fsm_snapshot_wait_enter" ELSE st
    [] st = "xcom_fsm_snapshot_wait_enter" -> "xcom_fsm_snapshot_wait"
    [] st = "xcom_fsm_snapshot_wait" ->
         IF action \in {"x_fsm_local_snapshot", "x_fsm_snapshot"}
         THEN "xcom_fsm_recover_wait_enter"
         ELSE IF action = "x_fsm_timeout" THEN "xcom_fsm_start_enter" ELSE st
    [] st = "xcom_fsm_recover_wait_enter" -> "xcom_fsm_recover_wait"
    [] st = "xcom_fsm_recover_wait" ->
         IF action \in {"x_fsm_timeout", "x_fsm_complete"}
         THEN "xcom_fsm_run_enter" ELSE st
    [] st = "xcom_fsm_run_enter" -> "xcom_fsm_run"
    [] st = "xcom_fsm_run" ->
         IF action = "x_fsm_terminate" THEN "xcom_fsm_start_enter" ELSE st

\* C38: whatever action the FSM is called with in a state the node can be
\* in, each state function takes the transition of the table (init to
\* start_enter to start; start to run_enter on net_boot of a member or on
\* snapshot, to snapshot_wait_enter on snapshot_wait; snapshot_wait to
\* recover_wait_enter on local_snapshot or snapshot, to start_enter on
\* timeout; recover_wait to run_enter on timeout or complete; run_enter to
\* run; run to start_enter on terminate; the enter states to their states)
\* or leaves the state as it is, and the FSM rests in start, snapshot_wait,
\* recover_wait or run only.
C38_FsmTransitions ==
  /\ lifecycle[FsmNode].state \in FsmRestStates \cup {"xcom_fsm_init"}
  /\ \A action \in FsmActionNames :
       \A fsmargs \in FsmArgs(action) :
         LET path == FsmPath(Engine(FsmNode), action, fsmargs)
         IN /\ path[Len(path)].fsm.state \in FsmRestStates
            /\ \A i \in 1 .. Len(path) - 1 :
                 path[i + 1].fsm.state =
                   FsmTransition(path[i].fsm.state, action,
                                 is_member(get_site_def(path[i + 1].sd)))

\* the FSM rests in run after it has waited for snapshots and taken one
C38_Witness ==
  /\ lifecycle[FsmNode].state = "xcom_fsm_run"
  /\ lifecycle[FsmNode].log_start_max # null_synode

(* ------------------------------------------------------------------ *)
(* The synode a proposer task drives                                   *)
(* ------------------------------------------------------------------ *)
\* the proposer task of node n installs the value of its client in the
\* machine of the slot it has chosen and sends its first prepare or accept
\* in this step
ProposerInstalls(n) ==
  /\ prop'[n].pc = "wait_rv"
  /\ prop[n].pc # "wait_rv" \/ prop'[n].msgno # prop[n].msgno

\* C39: when a proposer task installs the value of its client in the
\* machine of the synode it has chosen and sends its first prepare or
\* accept, nobody has started that machine (no value of a proposer, no
\* skip, no promise, nothing accepted, not finished) and the machine is not
\* locked, also when the task has waited in wait_for_cache since it chose
\* the synode.
C39_ExclusiveSynode ==
  [][\A n \in Nodes :
       ProposerInstalls(n) =>
         LET p == get_cache(pax[n], prop'[n].msgno)
         IN ~started(p) /\ p.lock = 0
    ]_vars

(* ------------------------------------------------------------------ *)
(* The proposer and the event horizon: a node recovers from the        *)
(* snapshot of a peer and then proposes for its clients                *)
(* ------------------------------------------------------------------ *)
\* how far log_end of the snapshot lies behind the threshold of too_far
BackLogs == {0, 1, EVENT_HORIZON_MIN - 1}

\* the snapshots the peer sends: the node is a member of their site
BackSnapshots ==
  { [configs |-> << Site(Synode(MaxFsmStart, 0), Synode(MaxFsmStart, 0),
                         InitNodes, EVENT_HORIZON_MIN, VOID_NODE_NO) >>,
     log_start |-> Synode(MaxFsmStart, 0),
     log_end |-> Synode(MaxFsmStart + k, 0)] : k \in BackLogs }

\* what the client hands the node once it runs
BackApp == WithGroup(AppData("app_type", 1, null_synode, << >>, 0), 0)

NextBack ==
  \/ FsmManager(<< "x_fsm_snapshot_wait", 0 >>)
  \/ \E gcs \in BackSnapshots :
       FsmManager(<< "x_fsm_local_snapshot", gcs >>)
  \/ \E gcs \in BackSnapshots : FsmSnapshot(RecoverMsg(gcs))
  \/ FsmTimeout
  \/ FsmComplete
  \/ \E c \in Chans : FsmPeerTakes(c)
  \/ \E m \in FsmAcceptorMsgs : FsmAcceptor(m)
  \/ \E m \in FsmReplies : FsmReply(m)
  \/ /\ lifecycle[FsmNode].state = "xcom_fsm_run"
     /\ prop[FsmNode].pc = "idle"
     /\ FsmClient(BackApp, {}, FALSE)
  \/ ProposerGet(FsmNode)

SpecBack == InitLife(MaxFills) /\ [][NextBack]_vars

\* C6: a proposer task installs the value of its client and sends its
\* prepare or accept only for a synode that is not too far at that moment,
\* however current_message has been set.
C6_Backpressure ==
  [][\A n \in Nodes :
       ProposerInstalls(n) =>
         ~too_far_at(site_defs[n], executed_msg[n], prop'[n].msgno)
    ]_vars

(* ------------------------------------------------------------------ *)
(* Messages for synodes beyond the event horizon: the node of SpecBack *)
(* with a peer that sends it every kind of Paxos message               *)
(* ------------------------------------------------------------------ *)
\* the synode the peer sends messages for: the one the proposer task of
\* the node waits for
FrontSynodes ==
  IF prop[FsmNode].pc = "wait_rv" THEN {prop[FsmNode].msgno} ELSE {}

FrontOps ==
  {"prepare_op", "accept_op", "learn_op", "tiny_learn_op", "skip_op"}
    \cup AckOps

\* the message of the peer with operation op for synode s: an answer
\* carries the ballot of the proposer of the node, any other message the
\* no_op and the ballot of the peer
FrontMsg(op, s, force) ==
  LET b == get_cache(pax[FsmNode], s).proposer.bal
  IN IF op \in AckOps
     THEN PaxMsg(FsmPeer, FsmNode, op, s, b, b, "normal", NoApp, force)
     ELSE PaxMsg(FsmPeer, FsmNode, op, s, Ballot(1, FsmPeer),
                 Ballot(1, FsmPeer), "no_op", NoApp, force)

FrontMsgs ==
  { FrontMsg(op, s, force) :
      op \in FrontOps, s \in FrontSynodes, force \in 0 .. 1 }

\* the snapshot whose log ends a whole event horizon after its start
FrontSnapshot ==
  CHOOSE gcs \in BackSnapshots :
    gcs.log_end = Synode(MaxFsmStart + EVENT_HORIZON_MIN - 1, 0)

NextFront ==
  \/ FsmManager(<< "x_fsm_snapshot_wait", 0 >>)
  \/ FsmSnapshot(RecoverMsg(FrontSnapshot))
  \/ FsmTimeout
  \/ \E c \in Chans : FsmPeerTakes(c)
  \/ /\ lifecycle[FsmNode].state = "xcom_fsm_run"
     /\ prop[FsmNode].pc = "idle"
     /\ FsmClient(BackApp, {}, FALSE)
  \/ ProposerGet(FsmNode)
  \/ /\ lifecycle[FsmNode].state = "xcom_fsm_run"
     /\ \E m \in FrontMsgs : FsmAcceptor(m)

SpecFront == InitLife(MaxFills) /\ [][NextFront]_vars

\* message m is for a synode that is too far and is not forced
InFront(m) ==
  /\ m.force_delivery = 0
  /\ too_far_at(site_defs[FsmNode], executed_msg[FsmNode], m.synode)

\* the step changes no machine of the node and sends nothing
FrontDropped ==
  /\ pax'[FsmNode] = pax[FsmNode]
  /\ net' = net

DeliveredAt(n, s) ==
  { app_log[n][i][2] : i \in { j \in 1 .. Len(app_log[n]) :
                                 app_log[n][j][1] = s } }

\* node m has learned value v for synode s
LearnedAt(m, s, v) ==
  /\ is_cached(pax[m], s)
  /\ finished(pax[m][s])
  /\ pax[m][s].learner.msg.msg_type = v.msg_type
  /\ pax[m][s].learner.msg.a.id = v.a.id

\* C3: Eventual delivery.  When a node has delivered the value of a synode,
\* every other node eventually has executed_msg beyond that synode with the
\* same learned value for it.  executed_msg never goes back and a finished
\* machine learns nothing more, so a node that is beyond the synode has its
\* final value for it: the claim requires, of every state, that a node
\* whose executed_msg is beyond a synode another node has delivered has
\* learned the delivered value for it.
C3_EventualDelivery ==
  \A n \in Nodes, m \in Nodes : \A i \in 1 .. Len(app_log[n]) :
    LET s == app_log[n][i][1]
    IN synode_gt(executed_msg[m], s) => LearnedAt(m, s, app_log[n][i][2])

========================================================================
